---- MODULE Spec2Model ----
(***************************************************************************)
(* State-machine model of azalea-client's login handshake                  *)
(* (Client::handshake), client registration (Client::start_client) and the *)
(* disconnect systems of DisconnectPlugin.                                 *)
(***************************************************************************)
EXTENDS Integers, Sequences, FiniteSets, TLC

\* ------------------------------------------------------------------ bounds
\* Clientbound login packets one handshake may read.
MaxPackets == 3
\* Signals the run-schedule channel may hold.
MaxSignals == 2
\* Ticks the tick task may be behind while a client is followed.
MaxLate == 1
\* Ticks the tick task may be behind after a stall.
MaxMissed == 11

\* ------------------------------------------------------- value domains
\* Option::None of the compression threshold and of the encryption key.
None == -1
\* profile UUIDs a GameProfile packet may carry.
Uuids == {"u1", "u2"}

\* ClientboundLoginPacket: the five variants matched in the login loop.
ClientboundLoginPacket ==
    [type : {"Hello"}, val : {0}]
      \cup [type : {"LoginCompression"}, val : {-1, 0, 256}]
      \cup [type : {"GameProfile"}, val : Uuids]
      \cup [type : {"LoginDisconnect"}, val : {"r1", "r2"}]
      \cup [type : {"CustomQuery"}, val : {1, 2}]

\* ------------------------------------------------------------ variables
VARIABLES
    pc,                     \* position of Client::handshake
    phase,                  \* ConnectionProtocol of conn (its type state)
    access_token,           \* TRUE iff account.access_token is Some
    attempts,               \* the attempts counter of the Hello arm
    p,                      \* the packet being handled
    secret_key,             \* e.secret_key of the Hello being handled
    encryption_key,         \* key set by conn.set_encryption_key, or None
    compression_threshold,  \* threshold set on conn, or None
    written,                \* packets written to conn, in order
    packetsRead,            \* packets returned by conn.read()
    result,                 \* return value of handshake, once returned
    authLog,                \* authenticate outcomes for the current Hello
    refreshLog,             \* refresh outcomes for the current Hello
    authCalls,              \* authenticate calls of the whole handshake
    refreshCalls,           \* account.refresh calls of the whole handshake
    hellos,                 \* Hello packets received
    writtenAtHello,         \* Len(written) when the current Hello arrived
    client_pc,              \* position of Client::start_client
    join_result,            \* what start_client returned, once returned
    clients,                \* the Client values start_client returned
    calls,                  \* the Client::set_client_information calls made
    game_packets,           \* entity -> the ClientInformation packets that
                            \* Client::write_packet wrote to its connection
    entities,               \* entities of the World
    entity_uuid_index,      \* the EntityUuidIndex resource: <<uuid, entity>>
    components,             \* entity -> names of the components it has
    game_profile,           \* entity -> uuid of its GameProfileComponent
    raw_connection,         \* entity -> its RawConnection
    is_connection_alive,    \* entity -> its IsConnectionAlive, change flag
    events_a,               \* Events<DisconnectEvent>: the newer buffer
    events_b,               \* Events<DisconnectEvent>: the older buffer;
                            \* an event is [entity, read]: whom it is for and
                            \* whether the EventReader has read it (events
                            \* alike in both are one element of the buffer)
    handled,                \* entities whose event the last pass consumed
    synthesized,            \* entities the last pass sent an event for
    client_information,     \* entity -> its ClientInformation component
    run_schedule_channel,   \* () signals queued on the run-schedule channel
    run_schedule_loop_pc,   \* position of the run_schedule_loop task
    ecs_lock,               \* who holds the Mutex<World>
    tick_task,              \* state of the tick_run_schedule_loop task
    due,                    \* ticks of game_tick_interval that are due
    burst,                  \* signals the tick task sent in this period
    ctx,                    \* the ExecuteCtx of the pathfinder's tick
    sent,                   \* the events the move's executor has sent
    executed,               \* TRUE once the tick has run the executor
    world,                  \* what the Instance answers about its blocks
    node,                   \* the BlockPos the move generator expands
    edges,                  \* the Vec<Edge> the move generator returned
    reached,                \* what the edge's is_reached returned
    builder,                \* the ArgumentBuilder the calls are chained on
    built,                  \* the CommandNode that build() returned
    panicked                \* the message of the builder call that panicked

loginVars == <<pc, phase, access_token, attempts, p, secret_key,
               encryption_key, compression_threshold, written, packetsRead,
               result, authLog, refreshLog, authCalls, refreshCalls, hellos,
               writtenAtHello>>

apiVars == <<calls, game_packets, builder, built, panicked>>

clientVars == <<client_pc, join_result, clients, apiVars>>

ecsVars == <<entities, entity_uuid_index, components, game_profile,
             raw_connection, is_connection_alive, events_a, events_b,
             handled, synthesized, client_information>>

taskVars == <<run_schedule_channel, run_schedule_loop_pc, ecs_lock,
              tick_task, due, burst>>

moveVars == <<ctx, sent, executed, world, node, edges, reached>>

clientAppVars == <<loginVars, clientVars, ecsVars, taskVars>>

worldVars == <<clientVars, ecsVars, taskVars, moveVars>>

vars == <<loginVars, worldVars>>

NoPacket == [type |-> "none", val |-> 0]
NoResult == [kind |-> "running", val |-> 0]

\* App::new() with DefaultPlugins: an empty World, no event queued.
InitEcs ==
    /\ entities = {}
    /\ entity_uuid_index = {}
    /\ components = <<>>
    /\ game_profile = <<>>
    /\ raw_connection = <<>>
    /\ is_connection_alive = <<>>
    /\ events_a = {}
    /\ events_b = {}
    /\ handled = {}
    /\ synthesized = {}
    /\ client_information = <<>>

\* No ArgumentBuilder: none made yet, or moved into build or a panic.
NoBuilder == [value |-> "none"]

\* No CommandNode: build has not returned.
NoNode == [value |-> "none"]

\* No Client exists yet, so none of its methods has been called; no
\* ArgumentBuilder has been made, built or dropped by a panic.
InitApi ==
    /\ calls = <<>>
    /\ game_packets = <<>>
    /\ builder = NoBuilder
    /\ built = NoNode
    /\ panicked = "None"

\* No move is being executed.
NoCtx == [move |-> "none"]

\* An Instance that is asked nothing.
NoWorld ==
    [standable |-> {}, passable |-> {}, block_passable |-> {},
     fall_distance |-> <<>>]

\* No node is being expanded.
InitEdges ==
    /\ world = NoWorld
    /\ node = [x |-> 0, y |-> 0, z |-> 0]
    /\ edges = <<>>

\* No edge has been asked whether it is reached.
InitReached == reached = "unasked"

InitMove ==
    /\ ctx = NoCtx
    /\ sent = <<>>
    /\ executed = FALSE
    /\ InitEdges
    /\ InitReached

\* start_ecs_runner has spawned run_schedule_loop, which awaits its first
\* signal, and tick_run_schedule_loop, which awaits its first tick.
InitTasks ==
    /\ run_schedule_channel = 0
    /\ run_schedule_loop_pc = "recv"
    /\ ecs_lock = "free"
    /\ tick_task = "running"
    /\ due = 0
    /\ burst = 0

\* One start_client call on a new ECS, at the point where Connection::new
\* has returned the connection and Self::handshake receives it.
InitLogin ==
    /\ InitEcs
    /\ InitTasks
    /\ InitApi
    /\ InitMove
    /\ client_pc = "handshake"
    /\ join_result = "none"
    /\ clients = {}
    /\ pc = "write_intention"
    /\ phase = "Handshake"
    /\ access_token \in BOOLEAN
    /\ attempts = 0
    /\ p = NoPacket
    /\ secret_key = None
    /\ encryption_key = None
    /\ compression_threshold = None
    /\ written = <<>>
    /\ packetsRead = 0
    /\ result = NoResult
    /\ authLog = <<>>
    /\ refreshLog = <<>>
    /\ authCalls = 0
    /\ refreshCalls = 0
    /\ hellos = 0
    /\ writtenAtHello = 0

\* A packet as it goes on the wire: what it is, and the connection's phase
\* and encryption at the moment of the write.
Wire(type, val) ==
    [packet |-> type, val |-> val, phase |-> phase,
     encrypted |-> (encryption_key # None)]

\* return Err(..) / Ok(..) from handshake.
Return(kind, val) ==
    /\ result' = [kind |-> kind, val |-> val]
    /\ pc' = "done"

\* conn.write(packet).await succeeded: the packet is on the wire.
WriteOk(type, val) == written' = Append(written, Wire(type, val))

\* conn.write(packet).await? failed: `?` returns the io error.
WriteErr == Return("Io", 0) /\ UNCHANGED written

Last(s) == s[Len(s)]

\* Connection::set_compression_threshold: a negative threshold disables
\* compression, any other value becomes the threshold.
SetCompressionThreshold(threshold) ==
    IF threshold >= 0 THEN threshold ELSE None

\* conn.write(ClientIntentionPacket{intention: Login}).await?; conn.login()
WriteIntention ==
    /\ pc = "write_intention"
    /\ \/ /\ WriteOk("ClientIntention", "Login")
          /\ phase' = "Login"
          /\ pc' = "write_hello"
          /\ UNCHANGED result
       \/ /\ WriteErr
          /\ UNCHANGED phase
    /\ UNCHANGED <<access_token, attempts, p, secret_key, encryption_key,
                   compression_threshold, packetsRead, authLog, refreshLog,
                   authCalls, refreshCalls, hellos, writtenAtHello,
                   worldVars>>

\* conn.write(ServerboundHelloPacket{..}).await?
WriteHello ==
    /\ pc = "write_hello"
    /\ \/ /\ WriteOk("ServerboundHello", 0)
          /\ pc' = "read"
          /\ UNCHANGED result
       \/ WriteErr
    /\ UNCHANGED <<phase, access_token, attempts, p, secret_key,
                   encryption_key, compression_threshold, packetsRead,
                   authLog, refreshLog, authCalls, refreshCalls, hellos,
                   writtenAtHello, worldVars>>

\* conn.read().await? failed.
ReadErr ==
    /\ pc = "read"
    /\ Return("ReadPacket", 0)
    /\ UNCHANGED <<phase, access_token, attempts, p, secret_key,
                   encryption_key, compression_threshold, written,
                   packetsRead, authLog, refreshLog, authCalls, refreshCalls,
                   hellos, writtenAtHello, worldVars>>

\* conn.read() returned `packet`, one of at most `limit` packets.
CanRead(packet, limit) ==
    /\ pc = "read"
    /\ packetsRead < limit
    /\ packet \in ClientboundLoginPacket
    /\ packetsRead' = packetsRead + 1
    /\ p' = packet

HelloAlwaysAuthenticates(limit) ==
    /\ \E packet \in ClientboundLoginPacket :
          /\ packet.type = "Hello"
          /\ CanRead(packet, limit)
    /\ hellos' = hellos + 1
    /\ writtenAtHello' = Len(written)
    /\ authLog' = <<>>
    /\ refreshLog' = <<>>
    /\ secret_key' = hellos + 1
    /\ attempts' = 1
    /\ pc' = "authenticate"
    /\ UNCHANGED <<phase, access_token, encryption_key,
                   compression_threshold, written, result, authCalls,
                   refreshCalls, worldVars>>

\* ClientboundLoginPacket::Hello(p): encrypt a fresh secret with the
\* server's public key, unwrapping the result (a panic when it is an Err),
\* then either enter the authentication loop (attempts = 1) or go straight
\* to the key.
RecvHello(limit) ==
    /\ \E packet \in ClientboundLoginPacket :
          /\ packet.type = "Hello"
          /\ CanRead(packet, limit)
    /\ hellos' = hellos + 1
    /\ writtenAtHello' = Len(written)
    /\ authLog' = <<>>
    /\ refreshLog' = <<>>
    /\ \E e \in {"Ok", "Err"} :
          IF e = "Err"
            THEN /\ Return("Panic", 0)
                 /\ UNCHANGED <<secret_key, attempts>>
            ELSE /\ secret_key' = hellos + 1
                 /\ UNCHANGED result
                 /\ IF access_token
                      THEN attempts' = 1 /\ pc' = "authenticate"
                      ELSE attempts' = attempts /\ pc' = "write_key"
    /\ UNCHANGED <<phase, access_token, encryption_key,
                   compression_threshold, written, authCalls,
                   refreshCalls, worldVars>>

GiveUpLate(n) == n >= 3

\* `if attempts >= 2`: the second attempt failed too, give up.
GiveUp(n) == n >= 2

RefreshOnAnyError(e) == e # "Ok"

\* matches!(e, InvalidSession | ForbiddenOperation): the session is invalid
\* and the account has to reauthenticate.
NeedsRefresh(e) == e \in {"InvalidSession", "ForbiddenOperation"}

\* One evaluation of the `while let Err(e) = conn.authenticate(..).await`
\* condition, and of the loop body up to its next await.
Authenticate ==
    /\ pc = "authenticate"
    /\ \E r \in {"Ok", "InvalidSession", "ForbiddenOperation", "Other"} :
          /\ authLog' = Append(authLog, r)
          /\ authCalls' = authCalls + 1
          /\ IF r = "Ok"
               THEN pc' = "write_key" /\ UNCHANGED result
               ELSE IF GiveUp(attempts)
                      THEN Return("SessionServer", r)
                      ELSE IF NeedsRefresh(r)
                             THEN pc' = "refresh" /\ UNCHANGED result
                             ELSE Return("SessionServer", r)
    /\ UNCHANGED <<phase, access_token, attempts, p, secret_key,
                   encryption_key, compression_threshold, written,
                   packetsRead, refreshLog, refreshCalls, hellos,
                   writtenAtHello, worldVars>>

RefreshWithoutCounting ==
    /\ pc = "refresh"
    /\ \E ok \in BOOLEAN :
          /\ refreshLog' = Append(refreshLog, ok)
          /\ refreshCalls' = refreshCalls + 1
          /\ IF ok
               THEN pc' = "authenticate" /\ UNCHANGED result
               ELSE Return("Auth", 0)
    /\ UNCHANGED <<phase, access_token, attempts, p, secret_key,
                   encryption_key, compression_threshold, written,
                   packetsRead, authLog, authCalls, hellos, writtenAtHello,
                   worldVars>>

\* account.refresh().await?; attempts += 1
Refresh ==
    /\ pc = "refresh"
    /\ \E ok \in BOOLEAN :
          /\ refreshLog' = Append(refreshLog, ok)
          /\ refreshCalls' = refreshCalls + 1
          /\ IF ok
               THEN /\ attempts' = attempts + 1
                    /\ pc' = "authenticate"
                    /\ UNCHANGED result
               ELSE /\ Return("Auth", 0)
                    /\ UNCHANGED attempts
    /\ UNCHANGED <<phase, access_token, p, secret_key, encryption_key,
                   compression_threshold, written, packetsRead, authLog,
                   authCalls, hellos, writtenAtHello, worldVars>>

WriteKeyEncryptFirst ==
    /\ pc = "write_key"
    /\ encryption_key' = secret_key
    /\ \/ /\ written' = Append(written,
                          [Wire("Key", secret_key) EXCEPT !.encrypted = TRUE])
          /\ pc' = "read"
          /\ UNCHANGED result
       \/ WriteErr
    /\ UNCHANGED <<phase, access_token, attempts, p, secret_key,
                   compression_threshold, packetsRead, authLog, refreshLog,
                   authCalls, refreshCalls, hellos, writtenAtHello,
                   worldVars>>

\* conn.write(ServerboundKeyPacket{..}).await?;
\* conn.set_encryption_key(e.secret_key)
WriteKey ==
    /\ pc = "write_key"
    /\ \/ /\ WriteOk("Key", secret_key)
          /\ encryption_key' = secret_key
          /\ pc' = "read"
          /\ UNCHANGED result
       \/ /\ WriteErr
          /\ UNCHANGED encryption_key
    /\ UNCHANGED <<phase, access_token, attempts, p, secret_key,
                   compression_threshold, packetsRead, authLog, refreshLog,
                   authCalls, refreshCalls, hellos, writtenAtHello,
                   worldVars>>

\* ClientboundLoginPacket::LoginCompression(p)
RecvLoginCompression(limit) ==
    /\ \E packet \in ClientboundLoginPacket :
          /\ packet.type = "LoginCompression"
          /\ CanRead(packet, limit)
          /\ compression_threshold' = SetCompressionThreshold(packet.val)
    /\ pc' = "read"
    /\ UNCHANGED <<phase, access_token, attempts, secret_key,
                   encryption_key, written, result, authLog, refreshLog,
                   authCalls, refreshCalls, hellos, writtenAtHello,
                   worldVars>>

\* ClientboundLoginPacket::GameProfile(p), up to the write's await.
RecvGameProfile(limit) ==
    /\ \E packet \in ClientboundLoginPacket :
          /\ packet.type = "GameProfile"
          /\ CanRead(packet, limit)
    /\ pc' = "write_login_acknowledged"
    /\ UNCHANGED <<phase, access_token, attempts, secret_key,
                   encryption_key, compression_threshold, written, result,
                   authLog, refreshLog, authCalls, refreshCalls, hellos,
                   writtenAtHello, worldVars>>

WriteLoginAcknowledgedSwitchAnyway ==
    /\ pc = "write_login_acknowledged"
    /\ phase' = "Configuration"
    /\ \/ /\ WriteOk("LoginAcknowledged", 0)
          /\ Return("Ok", p.val)
       \/ WriteErr
    /\ UNCHANGED <<access_token, attempts, p, secret_key, encryption_key,
                   compression_threshold, packetsRead, authLog, refreshLog,
                   authCalls, refreshCalls, hellos, writtenAtHello,
                   worldVars>>

\* conn.write(ServerboundLoginAcknowledgedPacket{}).await?;
\* break (conn.configuration(), p.game_profile); Ok((conn, profile))
WriteLoginAcknowledged ==
    /\ pc = "write_login_acknowledged"
    /\ \/ /\ WriteOk("LoginAcknowledged", 0)
          /\ phase' = "Configuration"
          /\ Return("Ok", p.val)
       \/ /\ WriteErr
          /\ UNCHANGED phase
    /\ UNCHANGED <<access_token, attempts, p, secret_key, encryption_key,
                   compression_threshold, packetsRead, authLog, refreshLog,
                   authCalls, refreshCalls, hellos, writtenAtHello,
                   worldVars>>

DisconnectWithSomeReason(limit) ==
    /\ \E packet \in ClientboundLoginPacket :
          /\ packet.type = "LoginDisconnect"
          /\ CanRead(packet, limit)
          /\ Return("Disconnect", "r1")
    /\ UNCHANGED <<phase, access_token, attempts, secret_key,
                   encryption_key, compression_threshold, written, authLog,
                   refreshLog, authCalls, refreshCalls, hellos,
                   writtenAtHello, worldVars>>

\* ClientboundLoginPacket::LoginDisconnect(p)
RecvLoginDisconnect(limit) ==
    /\ \E packet \in ClientboundLoginPacket :
          /\ packet.type = "LoginDisconnect"
          /\ CanRead(packet, limit)
          /\ Return("Disconnect", packet.val)
    /\ UNCHANGED <<phase, access_token, attempts, secret_key,
                   encryption_key, compression_threshold, written, authLog,
                   refreshLog, authCalls, refreshCalls, hellos,
                   writtenAtHello, worldVars>>

\* ClientboundLoginPacket::CustomQuery(p), up to the write's await.
RecvCustomQuery(limit) ==
    /\ \E packet \in ClientboundLoginPacket :
          /\ packet.type = "CustomQuery"
          /\ CanRead(packet, limit)
    /\ pc' = "write_custom_query_answer"
    /\ UNCHANGED <<phase, access_token, attempts, secret_key,
                   encryption_key, compression_threshold, written, result,
                   authLog, refreshLog, authCalls, refreshCalls, hellos,
                   writtenAtHello, worldVars>>

\* conn.write(ServerboundCustomQueryAnswerPacket{transaction_id, data: None})
WriteCustomQueryAnswer ==
    /\ pc = "write_custom_query_answer"
    /\ \/ /\ WriteOk("CustomQueryAnswer", p.val)
          /\ pc' = "read"
          /\ UNCHANGED result
       \/ WriteErr
    /\ UNCHANGED <<phase, access_token, attempts, p, secret_key,
                   encryption_key, compression_threshold, packetsRead,
                   authLog, refreshLog, authCalls, refreshCalls, hellos,
                   writtenAtHello, worldVars>>

\* Client::handshake, one step at a time, reading at most `limit` packets;
\* it touches the connection only.
Handshake(limit) ==
    \/ WriteIntention
    \/ WriteHello
    \/ ReadErr
    \/ RecvHello(limit)
    \/ Authenticate
    \/ Refresh
    \/ WriteKey
    \/ RecvLoginCompression(limit)
    \/ RecvGameProfile(limit)
    \/ WriteLoginAcknowledged
    \/ RecvLoginDisconnect(limit)
    \/ RecvCustomQuery(limit)
    \/ WriteCustomQueryAnswer

\* ======================================================================
\* Client::start_client and the World
\* ======================================================================

\* Option::None of EntityUuidIndex::get.
NoEntity == 0

\* The components of LocalPlayerBundle.
LocalPlayerBundle ==
    {"RawConnection", "ReceivedRegistries", "LocalPlayerEvents",
     "GameProfileComponent", "Account"}

\* The components of JoinedClientBundle.
JoinedClientBundle ==
    {"InstanceHolder", "PhysicsState", "InventoryComponent",
     "ClientInformation", "TabList", "CurrentSequenceNumber",
     "LastSentLookDirection", "PlayerAbilities", "PermissionLevel",
     "ChunkBatchInfo", "Hunger", "EntityIdIndex", "MineBundle",
     "AttackBundle", "LocalEntity"}

\* EntityUuidIndex::get: the entity recorded for uuid, if any.
IndexGet(index, uuid) ==
    IF \E pr \in index : pr[1] = uuid
      THEN (CHOOSE pr \in index : pr[1] = uuid)[2]
      ELSE NoEntity

\* EntityUuidIndex::insert: a map insert, replacing what uuid had.
IndexInsert(index, uuid, entity) ==
    {pr \in index : pr[1] # uuid} \cup {<<uuid, entity>>}

\* f with entity mapped to v, entity being new or not.
Put(f, entity, v) ==
    [e \in (DOMAIN f) \cup {entity} |-> IF e = entity THEN v ELSE f[e]]

\* What entity maps to in f, or `default` for an entity f does not know.
Get(f, entity, default) ==
    IF entity \in DOMAIN f THEN f[entity] ELSE default

NeverReuse(index, uuid) == FALSE

\* `if let Some(entity) = entity_uuid_index.get(&game_profile.uuid)`
ReuseEntity(index, uuid) == IndexGet(index, uuid) # NoEntity

RawConnectionInGame == [protocol |-> "Game", alive |-> TRUE]

\* RawConnection::new(run_schedule_sender, ConnectionProtocol::Configuration,
\* read_conn, write_conn): a live connection in the Configuration phase.
NewRawConnection == [protocol |-> "Configuration", alive |-> TRUE]

NoIsConnectionAlive == [value |-> FALSE, changed |-> FALSE]

\* Values of the ClientInformation component; "none" stands for an entity
\* without the component.
ClientInformations == {"default", "custom"}
NoClientInformation == "none"

Unlocked(mutex) == TRUE

\* Mutex::lock returns once nobody holds the mutex.
lock(mutex) == mutex = "free"

\* Self::handshake(conn, account, address).await? returned an error, which
\* start_client returns, or panicked, which unwinds start_client too.
HandshakeFailed ==
    /\ client_pc = "handshake"
    /\ pc = "done"
    /\ result.kind # "Ok"
    /\ client_pc' = "returned"
    /\ join_result' = IF result.kind = "Panic" THEN "Panic" ELSE "Err"
    /\ UNCHANGED <<loginVars, moveVars, clients, apiVars, ecsVars, taskVars>>

\* conn.write(ServerboundCustomPayloadPacket{identifier: "brand", ..}).await?
WriteBrand ==
    /\ client_pc = "handshake"
    /\ pc = "done"
    /\ result.kind = "Ok"
    /\ \/ /\ written' = Append(written, Wire("CustomPayload", "brand"))
          /\ client_pc' = "register"
          /\ UNCHANGED join_result
       \/ /\ client_pc' = "returned"
          /\ join_result' = "Err"
          /\ UNCHANGED written
    /\ UNCHANGED <<pc, phase, access_token, attempts, p, secret_key,
                   encryption_key, compression_threshold, packetsRead,
                   result, authLog, refreshLog, authCalls, refreshCalls,
                   hellos, writtenAtHello, clients, apiVars, ecsVars,
                   taskVars, moveVars>>

\* The rest of start_client for the profile `uuid`, under the ECS lock
\* taken by ecs_lock.lock(): find or spawn the entity for the uuid, build
\* the Client, insert LocalPlayerBundle and InConfigurationState.
Register(uuid) ==
    /\ lock(ecs_lock)
    /\ LET reuse == ReuseEntity(entity_uuid_index, uuid)
           entity == IF reuse
                       THEN IndexGet(entity_uuid_index, uuid)
                       ELSE Cardinality(entities) + 1
       IN  /\ entities' = entities \cup {entity}
           /\ entity_uuid_index' =
                 IF reuse THEN entity_uuid_index
                          ELSE IndexInsert(entity_uuid_index, uuid, entity)
           /\ components' =
                 Put(components, entity,
                     Get(components, entity, {}) \cup LocalPlayerBundle
                        \cup {"InConfigurationState"})
           /\ game_profile' = Put(game_profile, entity, uuid)
           /\ raw_connection' = Put(raw_connection, entity, NewRawConnection)
           /\ is_connection_alive' =
                 Put(is_connection_alive, entity,
                     Get(is_connection_alive, entity, NoIsConnectionAlive))
           /\ client_information' =
                 Put(client_information, entity,
                     Get(client_information, entity, NoClientInformation))
           /\ clients' = clients \cup {[entity |-> entity, profile |-> uuid]}
    /\ UNCHANGED <<events_a, events_b, handled, synthesized, taskVars,
                   apiVars>>

\* start_client after the brand is written: register the profile the
\* handshake returned and return Ok((client, rx)).
StartClient ==
    /\ client_pc = "register"
    /\ Register(result.val)
    /\ client_pc' = "returned"
    /\ join_result' = "Ok"
    /\ UNCHANGED <<loginVars, moveVars>>

\* Client::join on the running ECS: a whole start_client call that succeeds
\* for the profile `uuid` the server names.  The handshake and the brand
\* write touch only the call's own connection, so the call acts on the
\* World in its locked section alone; a call that fails before it returns
\* without touching the World.
Join ==
    /\ \E uuid \in Uuids : Register(uuid)
    /\ UNCHANGED <<loginVars, moveVars, client_pc, join_result>>

\* Client::disconnect: send a DisconnectEvent for the client's entity.
Disconnect ==
    /\ lock(ecs_lock)
    /\ \E client \in clients :
          events_a' = events_a
                         \cup {[entity |-> client.entity, read |-> FALSE]}
    /\ UNCHANGED <<loginVars, moveVars, clientVars,
                   entities, entity_uuid_index,
                   components, game_profile, raw_connection,
                   is_connection_alive, events_b, handled, synthesized,
                   client_information, taskVars>>

\* The read or write task of an entity's RawConnection ends (I/O error or
\* the server closing the socket): RawConnection::is_alive turns false.
ConnectionDies ==
    /\ \E entity \in entities :
          /\ "RawConnection" \in components[entity]
          /\ raw_connection[entity].alive
          /\ raw_connection' =
                [raw_connection EXCEPT ![entity].alive = FALSE]
    /\ UNCHANGED <<loginVars, moveVars, clientVars,
                   entities, entity_uuid_index,
                   components, game_profile, is_connection_alive, events_a,
                   events_b, handled, synthesized, client_information,
                   taskVars>>

\* ----------------------------------------------------------------------
\* One pass of the main schedule, as run_schedule_loop runs it under the
\* ECS lock.  The systems are functions of the world w, a record of the
\* parts of the World they touch plus the Commands queued so far.
\* ----------------------------------------------------------------------

\* The entities of S in query order.
RECURSIVE InOrder(_)
InOrder(S) ==
    IF S = {} THEN <<>>
    ELSE LET m == CHOOSE x \in S : \A y \in S : x <= y
         IN  <<m>> \o InOrder(S \ {m})

\* The World as the systems see it at the start of a pass.
TheWorld ==
    [components |-> components,
     raw_connection |-> raw_connection,
     is_connection_alive |-> is_connection_alive,
     events_a |-> events_a,
     events_b |-> events_b,
     client_information |-> client_information,
     commands |-> <<>>,
     handled |-> {},
     synthesized |-> {}]

\* Events::update, which add_event::<DisconnectEvent>() schedules at the
\* start of every pass: the older buffer is dropped, the newer one ages.
event_update_system(w) ==
    [w EXCEPT !.events_b = w.events_a, !.events_a = {}]

\* The entities whose connection can finish configuration and log in.
LoginCandidates ==
    {e \in entities : {"RawConnection", "InConfigurationState"}
                         \subseteq components[e]}

\* Packet handling for the entities in `logins`, whose configuration ended
\* and whose login packet arrived: the connection is in the game state, the
\* entity loses InConfigurationState and gets JoinedClientBundle and the
\* InstanceName of the world it logged in to.
process_packet_events(w, logins) ==
    [w EXCEPT
       !.components =
           [e \in DOMAIN w.components |->
              IF e \in logins
                THEN (w.components[e] \ {"InConfigurationState"})
                        \cup JoinedClientBundle \cup {"InstanceName"}
                ELSE w.components[e]],
       !.client_information =
           [e \in DOMAIN w.client_information |->
              IF e \in logins THEN "default" ELSE w.client_information[e]],
       !.raw_connection =
           [e \in DOMAIN w.raw_connection |->
              IF e \in logins
                THEN [w.raw_connection[e] EXCEPT !.protocol = "Game"]
                ELSE w.raw_connection[e]]]

\* update_read_packets_task_running_component: for every entity with a
\* RawConnection, queue the insertion of IsConnectionAlive(is_alive()).
update_read_packets_task_running_component(w) ==
    LET query == InOrder({e \in DOMAIN w.components :
                            "RawConnection" \in w.components[e]})
    IN  [w EXCEPT !.commands = w.commands \o
           [i \in 1..Len(query) |->
              [op |-> "insert IsConnectionAlive",
               entity |-> query[i],
               running |-> w.raw_connection[query[i]].alive]]]

\* disconnect_on_connection_dead: for every entity whose IsConnectionAlive
\* changed since this system last ran and is false, send a DisconnectEvent.
disconnect_on_connection_dead(w) ==
    LET dead == {e \in DOMAIN w.components :
                   /\ "IsConnectionAlive" \in w.components[e]
                   /\ w.is_connection_alive[e].changed
                   /\ ~w.is_connection_alive[e].value}
    IN  [w EXCEPT
           !.events_a = w.events_a
                           \cup {[entity |-> e, read |-> FALSE] : e \in dead},
           !.is_connection_alive =
              [e \in DOMAIN w.is_connection_alive |->
                 [w.is_connection_alive[e] EXCEPT !.changed = FALSE]],
           !.synthesized = dead]

ReadNewerBufferOnly(w) ==
    LET unread == {ev.entity : ev \in {x \in w.events_a : ~x.read}}
        events == InOrder(unread)
        Read(buffer) == {[ev EXCEPT !.read = TRUE] : ev \in buffer}
    IN  [w EXCEPT
           !.commands = w.commands \o
              [i \in 1..Len(events) |->
                 [op |-> "remove JoinedClientBundle",
                  entity |-> events[i],
                  running |-> FALSE]],
           !.events_a = Read(w.events_a),
           !.handled = unread]

\* remove_components_from_disconnected_players: for every DisconnectEvent
\* its EventReader has not read yet, queue remove::<JoinedClientBundle>().
remove_components_from_disconnected_players(w) ==
    LET unread == {ev.entity : ev \in {x \in w.events_b \cup w.events_a :
                                           ~x.read}}
        events == InOrder(unread)
        Read(buffer) == {[ev EXCEPT !.read = TRUE] : ev \in buffer}
    IN  [w EXCEPT
           !.commands = w.commands \o
              [i \in 1..Len(events) |->
                 [op |-> "remove JoinedClientBundle",
                  entity |-> events[i],
                  running |-> FALSE]],
           !.events_a = Read(w.events_a),
           !.events_b = Read(w.events_b),
           !.handled = unread]

RemoveBeforeDetect(w) ==
    disconnect_on_connection_dead(
        remove_components_from_disconnected_players(
            update_read_packets_task_running_component(w)))

\* DisconnectPlugin: the three systems, chained in this order.
DisconnectPlugin(w) ==
    remove_components_from_disconnected_players(
        disconnect_on_connection_dead(
            update_read_packets_task_running_component(w)))

\* One queued command applied to the world.
ApplyCommand(w, c) ==
    IF c.op = "insert IsConnectionAlive"
      THEN [w EXCEPT
              !.components[c.entity] = @ \cup {"IsConnectionAlive"},
              !.is_connection_alive[c.entity] =
                  [value |-> c.running, changed |-> TRUE]]
      ELSE [w EXCEPT !.components[c.entity] = @ \ JoinedClientBundle,
                     !.client_information[c.entity] = NoClientInformation]

\* The queued Commands applied in order when the schedule's systems have
\* run.
RECURSIVE apply_deferred(_)
apply_deferred(w) ==
    IF w.commands = <<>> THEN w
    ELSE apply_deferred(
            [ApplyCommand(w, Head(w.commands))
               EXCEPT !.commands = Tail(w.commands)])

\* ecs.run_schedule(&outer_schedule_label); ecs.clear_trackers(): one pass
\* of the schedule over the World.
Pass ==
    /\ \E logins \in SUBSET LoginCandidates :
          LET w == apply_deferred(
                     DisconnectPlugin(
                       process_packet_events(
                         event_update_system(TheWorld), logins)))
          IN  /\ components' = w.components
              /\ raw_connection' = w.raw_connection
              /\ is_connection_alive' = w.is_connection_alive
              /\ events_a' = w.events_a
              /\ events_b' = w.events_b
              /\ client_information' = w.client_information
              /\ handled' = w.handled
              /\ synthesized' = w.synthesized
    /\ UNCHANGED <<entities, entity_uuid_index, game_profile>>

\* run_schedule_loop, one iteration as the World sees it: the ECS is
\* locked, the schedule run, the trackers cleared and the lock released,
\* whenever a signal lets the loop go round.
RunSchedule ==
    /\ lock(ecs_lock)
    /\ Pass
    /\ UNCHANGED <<loginVars, moveVars, clientVars, taskVars>>

\* What the Mutex<World> guards: the entities and their components, the
\* resources and the event queues.  (Whether the tasks of a RawConnection
\* still run is a fact about the tasks, which the World only reads.)
WorldData ==
    <<entities, entity_uuid_index, components, game_profile,
      [e \in DOMAIN raw_connection |-> raw_connection[e].protocol],
      is_connection_alive, client_information, events_a, events_b>>

\* run_schedule_loop never returns, so its receiver is never dropped.
ReceiverDropped == run_schedule_loop_pc = "returned"

\* One period of game_tick_interval elapses: one more tick is due.  The
\* tick task is behind by at most `limit` ticks.
Interval(limit) ==
    /\ tick_task = "running"
    /\ due < limit
    /\ due' = due + 1
    /\ burst' = 0
    /\ UNCHANGED <<loginVars, moveVars, clientVars,
                   ecsVars, run_schedule_channel,
                   run_schedule_loop_pc, ecs_lock, tick_task>>

\* tick_run_schedule_loop, one iteration: game_tick_interval.tick() returns
\* for a tick that is due (MissedTickBehavior::Burst: at once for every
\* missed one), and a signal is sent; the task returns if the send fails.
Tick ==
    /\ tick_task = "running"
    /\ due > 0
    /\ IF ReceiverDropped
         THEN /\ tick_task' = "returned"
              /\ UNCHANGED <<run_schedule_channel, due, burst>>
         ELSE /\ run_schedule_channel < MaxSignals
              /\ run_schedule_channel' = run_schedule_channel + 1
              /\ due' = due - 1
              /\ burst' = burst + 1
              /\ UNCHANGED tick_task
    /\ UNCHANGED <<loginVars, moveVars, clientVars,
                   ecsVars, run_schedule_loop_pc,
                   ecs_lock>>

\* run_schedule_receiver.recv().await returns one queued signal.
Recv ==
    /\ run_schedule_loop_pc = "recv"
    /\ run_schedule_channel > 0
    /\ run_schedule_channel' = run_schedule_channel - 1
    /\ run_schedule_loop_pc' = "lock"
    /\ UNCHANGED <<loginVars, moveVars, clientVars,
                   ecsVars, ecs_lock, tick_task,
                   due, burst>>

\* let mut ecs = ecs.lock();
LockEcs ==
    /\ run_schedule_loop_pc = "lock"
    /\ lock(ecs_lock)
    /\ ecs_lock' = "run_schedule_loop"
    /\ run_schedule_loop_pc' = "run"
    /\ UNCHANGED <<loginVars, moveVars, clientVars,
                   ecsVars, run_schedule_channel,
                   tick_task, due, burst>>

\* ecs.run_schedule(..); ecs.clear_trackers(); the guard is dropped at the
\* end of the loop body and the loop awaits the next signal.
RunScheduleLocked ==
    /\ run_schedule_loop_pc = "run"
    /\ Pass
    /\ ecs_lock' = "free"
    /\ run_schedule_loop_pc' = "recv"
    /\ UNCHANGED <<loginVars, moveVars, clientVars,
                   run_schedule_channel, tick_task,
                   due, burst>>

\* Client::set_client_information, its first block: the ClientInformation
\* component of the client's entity is overwritten under the lock.  (The
\* query panics for an entity without the component.)
StoreClientInformation ==
    /\ lock(ecs_lock)
    /\ \E client \in clients, information \in ClientInformations :
          /\ "ClientInformation" \in components[client.entity]
          /\ client_information' =
                [client_information EXCEPT ![client.entity] = information]
    /\ UNCHANGED <<loginVars, moveVars, clientVars,
                   entities, entity_uuid_index,
                   components, game_profile, raw_connection,
                   is_connection_alive, events_a, events_b, handled,
                   synthesized, taskVars>>

\* Client::join: the one start_client call on the ECS that join created.
JoinNewEcs ==
    /\ clients = {}
    /\ Join

\* One start_client call from the handshake to its return.
SpecLogin ==
    /\ InitLogin
    /\ [][\/ Handshake(MaxPackets)
          \/ HandshakeFailed
          \/ WriteBrand
          \/ StartClient]_vars

\* The ECS as start_ecs_runner leaves it: a new World whose schedule loop
\* runs, no client joined yet.
InitWorld ==
    /\ InitEcs
    /\ InitTasks
    /\ InitApi
    /\ client_pc = "idle"
    /\ join_result = "none"
    /\ clients = {}
    /\ pc = "done"
    /\ phase = "Handshake"
    /\ access_token = FALSE
    /\ attempts = 0
    /\ p = NoPacket
    /\ secret_key = None
    /\ encryption_key = None
    /\ compression_threshold = None
    /\ written = <<>>
    /\ packetsRead = 0
    /\ result = NoResult
    /\ authLog = <<>>
    /\ refreshLog = <<>>
    /\ authCalls = 0
    /\ refreshCalls = 0
    /\ hellos = 0
    /\ writtenAtHello = 0

Init == InitWorld /\ InitMove

Next ==
    \/ Join
    \/ RunSchedule
    \/ Disconnect
    \/ ConnectionDies

Spec == Init /\ [][Next]_vars

\* Client::join: one client on its own ECS, with the two tasks
\* start_ecs_runner spawned for it.
SpecClient ==
    /\ Init
    /\ [][\/ JoinNewEcs
          \/ Interval(MaxLate)
          \/ Tick
          \/ Recv
          \/ LockEcs
          \/ RunScheduleLocked
          \/ Disconnect
          \/ ConnectionDies
          \/ StoreClientInformation]_vars

\* The tokio runtime polls a task that can go on, and time passes.  The
\* last conjunct is WF_vars(RunScheduleLocked) spelled out: the pass is
\* enabled exactly while run_schedule_loop_pc = "run", and it ends that.
SpecClientFair ==
    /\ SpecClient
    /\ WF_vars(Interval(MaxLate))
    /\ WF_vars(Tick)
    /\ WF_vars(Recv)
    /\ WF_vars(LockEcs)
    /\ []<>(run_schedule_loop_pc # "run")

\* The two tasks alone, the tick task stalling.
SpecTick ==
    /\ Init
    /\ [][\/ Interval(MaxMissed)
          \/ Tick
          \/ Recv
          \/ LockEcs
          \/ RunScheduleLocked]_vars

\* ----------------------------------------------------------------------
\* The pathfinder's basic moves.  Lengths are in tenths of a block.
\* ----------------------------------------------------------------------

\* Block offsets of CardinalDirection::iter().
CardinalDirection ==
    {[x |-> 0, z |-> -1], [x |-> 1, z |-> 0],
     [x |-> 0, z |-> 1], [x |-> -1, z |-> 0]}

\* Coordinates of the bot and components of its velocity, in tenths.
Coordinates == {-2, 3, 5, 7, 8, 17, 18}
Velocities == {-5, -2, -1, 0, 1, 2, 5}

Abs(n) == IF n < 0 THEN -n ELSE n

\* BlockPos::center: the middle of the block, in tenths.
center(pos) ==
    [x |-> 10 * pos.x + 5, y |-> 10 * pos.y + 5, z |-> 10 * pos.z + 5]

\* An ExecuteCtx for an Ascend edge out of the origin: the edge's target,
\* where the bot is and how it moves.
AscendCtx ==
    {[move |-> "ascend",
      start |-> [x |-> 0, y |-> 0, z |-> 0],
      target |-> [x |-> dir.x, y |-> 1, z |-> dir.z],
      position |-> [x |-> px, z |-> pz],
      delta |-> [x |-> vx, z |-> vz]] :
        dir \in CardinalDirection, px \in Coordinates, pz \in Coordinates,
        vx \in Velocities, vz \in Velocities}

LookAtEvent(position) == [event |-> "LookAt", arg |-> position]
StartWalkEvent(direction) == [event |-> "StartWalk", arg |-> direction]
JumpEvent == [event |-> "Jump", arg |-> "none"]

\* execute_ascend_move: the events it sends, in order.
execute_ascend_move(c) ==
    LET target_center == center(c.target)
        always == <<LookAtEvent(target_center), StartWalkEvent("Forward")>>
        x_axis == Abs(c.start.x - c.target.x)
        z_axis == Abs(c.start.z - c.target.z)
        flat_distance_to_next ==
            x_axis * (target_center.x - c.position.x)
              + z_axis * (target_center.z - c.position.z)
        side_distance ==
            z_axis * Abs(target_center.x - c.position.x)
              + x_axis * Abs(target_center.z - c.position.z)
        lateral_motion == x_axis * c.delta.z + z_axis * c.delta.x
    IN  IF lateral_motion > 1
          THEN always
          ELSE IF flat_distance_to_next > 12 \/ side_distance > 2
                 THEN always
                 ELSE Append(always, JumpEvent)

\* The tick runs the edge's executor.
ExecuteAscend ==
    /\ ctx.move = "ascend"
    /\ ~executed
    /\ executed' = TRUE
    /\ sent' = execute_ascend_move(ctx)
    /\ UNCHANGED <<ctx, world, node, edges, reached, clientAppVars>>

\* A tick of the pathfinder on an Ascend edge, before the executor runs.
InitAscend ==
    /\ InitWorld
    /\ ctx \in AscendCtx
    /\ sent = <<>>
    /\ executed = FALSE
    /\ InitEdges
    /\ InitReached

SpecAscend ==
    /\ InitAscend
    /\ [][ExecuteAscend]_vars

\* ----------------------------------------------------------------------
\* The move generators.  A world is what the Instance answers to
\* is_standable, is_passable, is_block_passable and fall_distance.
\* ----------------------------------------------------------------------

BlockPos(x, y, z) == [x |-> x, y |-> y, z |-> z]

\* BlockPos + BlockPos.
Add(a, b) == BlockPos(a.x + b.x, a.y + b.y, a.z + b.z)

up(pos, n) == BlockPos(pos.x, pos.y + n, pos.z)
down(pos, n) == BlockPos(pos.x, pos.y - n, pos.z)

\* CardinalDirection::iter(): North, South, West, East.
iter ==
    <<[x |-> 0, z |-> -1], [x |-> 0, z |-> 1],
      [x |-> -1, z |-> 0], [x |-> 1, z |-> 0]>>

\* CardinalDirection::right(): the direction a quarter turn clockwise.
right(dir) == [x |-> -dir.z, z |-> dir.x]

is_standable(pos, w) == pos \in w.standable
is_passable(pos, w) == pos \in w.passable
is_block_passable(pos, w) == pos \in w.block_passable
fall_distance(pos, w) ==
    IF pos \in DOMAIN w.fall_distance THEN w.fall_distance[pos] ELSE 0

\* Costs, in thousandths.
SPRINT_ONE_BLOCK_COST == 3564
JUMP_ONE_BLOCK_COST == 3163
FALL_ONE_BLOCK_COST == 500
SQRT_2 == 1414

Edge(target, execute, is_reached, cost) ==
    [target |-> target, execute |-> execute, is_reached |-> is_reached,
     cost |-> cost]

\* The edges pushed by a loop over CardinalDirection::iter(), in order:
\* push[i] is what the i-th iteration pushes.
RECURSIVE Pushed(_)
Pushed(push) ==
    IF push = <<>> THEN <<>> ELSE Head(push) \o Pushed(Tail(push))

\* The nodes a move generator is asked to expand.
Nodes == {BlockPos(0, 0, 0), BlockPos(-3, 64, 7)}

StartSprintEvent(direction) == [event |-> "StartSprint", arg |-> direction]

ForwardToEveryNeighbour(w, pos) ==
    [i \in 1..4 |->
        Edge(Add(pos, BlockPos(iter[i].x, 0, iter[i].z)),
             "execute_forward_move", "default_is_reached",
             SPRINT_ONE_BLOCK_COST)]

forward_move(w, pos) ==
    Pushed([i \in 1..4 |->
        LET dir == iter[i]
            offset == BlockPos(dir.x, 0, dir.z)
        IN  IF ~is_standable(Add(pos, offset), w)
              THEN <<>>
              ELSE <<Edge(Add(pos, offset), "execute_forward_move",
                          "default_is_reached", SPRINT_ONE_BLOCK_COST)>>])

execute_forward_move(c) ==
    <<LookAtEvent(center(c.target)), StartSprintEvent("Forward")>>

execute_diagonal_move(c) ==
    <<LookAtEvent(center(c.target)), StartSprintEvent("Forward")>>

\* The ExecuteCtx of a Forward or a Diagonal edge out of a node.
SprintCtx(pos) ==
    {[move |-> "forward", start |-> pos,
      target |-> Add(pos, BlockPos(dir.x, 0, dir.z))] :
        dir \in CardinalDirection}
    \cup
    {[move |-> "diagonal", start |-> pos,
      target |-> Add(pos, BlockPos(dir.x + right(dir).x, 0,
                                   dir.z + right(dir).z))] :
        dir \in CardinalDirection}

\* The worlds forward_move can tell apart: which neighbours are standable.
ForwardWorlds(pos) ==
    {[NoWorld EXCEPT !.standable = S] :
        S \in SUBSET {Add(pos, BlockPos(dir.x, 0, dir.z)) :
                         dir \in CardinalDirection}}

ForwardMove ==
    /\ edges' = forward_move(world, node)
    /\ UNCHANGED <<ctx, sent, executed, world, node, reached,
                   clientAppVars>>

ExecuteForward ==
    /\ ctx.move = "forward"
    /\ ~executed
    /\ executed' = TRUE
    /\ sent' = execute_forward_move(ctx)
    /\ UNCHANGED <<ctx, world, node, edges, reached, clientAppVars>>

ExecuteDiagonal ==
    /\ ctx.move = "diagonal"
    /\ ~executed
    /\ executed' = TRUE
    /\ sent' = execute_diagonal_move(ctx)
    /\ UNCHANGED <<ctx, world, node, edges, reached, clientAppVars>>

InitForward ==
    /\ InitWorld
    /\ InitReached
    /\ node \in Nodes
    /\ world \in ForwardWorlds(node)
    /\ edges = <<>>
    /\ ctx \in SprintCtx(node)
    /\ sent = <<>>
    /\ executed = FALSE

SpecForward ==
    /\ InitForward
    /\ [][\/ ForwardMove
          \/ ExecuteForward
          \/ ExecuteDiagonal]_vars

AscendWithoutHeadroom(w, pos) ==
    Pushed([i \in 1..4 |->
        LET dir == iter[i]
            offset == BlockPos(dir.x, 1, dir.z)
        IN  IF ~is_standable(Add(pos, offset), w)
              THEN <<>>
              ELSE <<Edge(Add(pos, offset), "execute_ascend_move",
                          "ascend_is_reached",
                          SPRINT_ONE_BLOCK_COST + JUMP_ONE_BLOCK_COST)>>])

ascend_move(w, pos) ==
    Pushed([i \in 1..4 |->
        LET dir == iter[i]
            offset == BlockPos(dir.x, 1, dir.z)
        IN  IF ~is_block_passable(up(pos, 2), w)
              THEN <<>>
              ELSE IF ~is_standable(Add(pos, offset), w)
                     THEN <<>>
                     ELSE <<Edge(Add(pos, offset), "execute_ascend_move",
                                 "ascend_is_reached",
                                 SPRINT_ONE_BLOCK_COST
                                   + JUMP_ONE_BLOCK_COST)>>])

\* BlockPos::from(Vec3): the block a position (in tenths) is in.
BlockPosFrom(position) ==
    BlockPos(position.x \div 10, position.y \div 10, position.z \div 10)

ascend_is_reached(c) ==
    \/ BlockPosFrom(c.position) = c.target
    \/ BlockPosFrom(c.position) = down(c.target, 1)

\* The IsReachedCtx of an Ascend edge out of a node: the bot at positions
\* (in tenths of a block) in and around the target blocks.
AscendIsReachedCtx(pos) ==
    LET Near(block) ==
            {[x |-> 10 * block.x + ox, y |-> 10 * block.y + oy,
              z |-> 10 * block.z + oz] :
                ox \in {-1, 0, 9, 10}, oy \in {-11, -10, -1, 0, 9, 10},
                oz \in {-1, 5}}
    IN  {[move |-> "ascend", start |-> pos, target |-> target,
          position |-> position] :
            target \in {Add(pos, BlockPos(dir.x, 1, dir.z)) :
                           dir \in CardinalDirection},
            position \in UNION {Near(Add(pos, BlockPos(dir.x, 1, dir.z))) :
                                   dir \in {iter[1], iter[4]}}}

\* The worlds ascend_move can tell apart.
AscendWorlds(pos) ==
    {[NoWorld EXCEPT !.standable = S, !.block_passable = B] :
        S \in SUBSET {Add(pos, BlockPos(dir.x, 1, dir.z)) :
                         dir \in CardinalDirection},
        B \in SUBSET {up(pos, 2)}}

AscendMove ==
    /\ edges' = ascend_move(world, node)
    /\ UNCHANGED <<ctx, sent, executed, world, node, reached,
                   clientAppVars>>

AscendIsReached ==
    /\ reached' = IF ascend_is_reached(ctx) THEN "reached" ELSE "not reached"
    /\ UNCHANGED <<ctx, sent, executed, world, node, edges,
                   clientAppVars>>

InitAscendMove ==
    /\ InitWorld
    /\ node \in Nodes
    /\ world \in AscendWorlds(node)
    /\ edges = <<>>
    /\ ctx \in AscendIsReachedCtx(node)
    /\ sent = <<>>
    /\ executed = FALSE
    /\ reached = "unasked"

SpecAscendMove ==
    /\ InitAscendMove
    /\ [][\/ AscendMove
          \/ AscendIsReached]_vars

DiagonalNeedsBothCardinals(w, pos) ==
    Pushed([i \in 1..4 |->
        LET dir == iter[i]
            offset == BlockPos(dir.x + right(dir).x, 0, dir.z + right(dir).z)
        IN  IF \/ ~is_passable(BlockPos(pos.x + dir.x, pos.y, pos.z + dir.z), w)
               \/ ~is_passable(BlockPos(pos.x + right(dir).x, pos.y,
                                        pos.z + right(dir).z), w)
              THEN <<>>
              ELSE IF ~is_standable(Add(pos, offset), w)
                     THEN <<>>
                     ELSE <<Edge(Add(pos, offset), "execute_diagonal_move",
                                 "default_is_reached",
                                 (SPRINT_ONE_BLOCK_COST * SQRT_2) \div 1000
                                   + 1)>>])

diagonal_move(w, pos) ==
    Pushed([i \in 1..4 |->
        LET dir == iter[i]
            offset == BlockPos(dir.x + right(dir).x, 0, dir.z + right(dir).z)
        IN  IF /\ ~is_passable(BlockPos(pos.x + dir.x, pos.y, pos.z + dir.z), w)
               /\ ~is_passable(BlockPos(pos.x + right(dir).x, pos.y,
                                        pos.z + right(dir).z), w)
              THEN <<>>
              ELSE IF ~is_standable(Add(pos, offset), w)
                     THEN <<>>
                     ELSE <<Edge(Add(pos, offset), "execute_diagonal_move",
                                 "default_is_reached",
                                 (SPRINT_ONE_BLOCK_COST * SQRT_2) \div 1000
                                   + 1)>>])

\* The worlds diagonal_move can tell apart: which cardinal neighbours are
\* passable, and which corners are standable.
DiagonalWorlds(pos) ==
    {[NoWorld EXCEPT !.passable = P, !.standable = S] :
        P \in SUBSET {Add(pos, BlockPos(dir.x, 0, dir.z)) :
                         dir \in CardinalDirection},
        S \in SUBSET {Add(pos, BlockPos(dx, 0, dz)) :
                         dx \in {-1, 1}, dz \in {-1, 1}}}

DiagonalMove ==
    /\ edges' = diagonal_move(world, node)
    /\ UNCHANGED <<ctx, sent, executed, world, node, reached,
                   clientAppVars>>

InitDiagonal ==
    /\ InitWorld
    /\ InitReached
    /\ node \in Nodes
    /\ world \in DiagonalWorlds(node)
    /\ edges = <<>>
    /\ ctx = NoCtx
    /\ sent = <<>>
    /\ executed = FALSE

SpecDiagonal ==
    /\ InitDiagonal
    /\ [][DiagonalMove]_vars

DescendAnyFall(w, pos) ==
    Pushed([i \in 1..4 |->
        LET dir == iter[i]
            new_horizontal_position == Add(pos, BlockPos(dir.x, 0, dir.z))
            fall == fall_distance(new_horizontal_position, w)
            new_position == down(new_horizontal_position, fall)
        IN  IF fall = 0
              THEN <<>>
              ELSE IF ~is_passable(new_horizontal_position, w)
                     THEN <<>>
                     ELSE IF ~is_standable(new_position, w)
                            THEN <<>>
                            ELSE <<Edge(new_position, "execute_descend_move",
                                        "descend_is_reached",
                                        SPRINT_ONE_BLOCK_COST
                                          + FALL_ONE_BLOCK_COST * fall)>>])

descend_move(w, pos) ==
    Pushed([i \in 1..4 |->
        LET dir == iter[i]
            new_horizontal_position == Add(pos, BlockPos(dir.x, 0, dir.z))
            fall == fall_distance(new_horizontal_position, w)
            new_position == down(new_horizontal_position, fall)
        IN  IF fall = 0 \/ fall > 3
              THEN <<>>
              ELSE IF ~is_passable(new_horizontal_position, w)
                     THEN <<>>
                     ELSE IF ~is_standable(new_position, w)
                            THEN <<>>
                            ELSE <<Edge(new_position, "execute_descend_move",
                                        "descend_is_reached",
                                        SPRINT_ONE_BLOCK_COST
                                          + FALL_ONE_BLOCK_COST * fall)>>])

\* What fall_distance may answer for a column.
Falls == 0..4

\* The worlds descend_move can tell apart: for each cardinal neighbour, how
\* far the fall is, whether the column is passable, and whether the landing
\* is standable.
DescendWorlds(pos) ==
    LET Q == {Add(pos, BlockPos(dir.x, 0, dir.z)) : dir \in CardinalDirection}
    IN  {[NoWorld EXCEPT !.fall_distance = fall, !.passable = P,
                         !.standable = {down(q, fall[q]) : q \in L}] :
            fall \in [Q -> Falls], P \in SUBSET Q, L \in SUBSET Q}

DescendMove ==
    /\ edges' = descend_move(world, node)
    /\ UNCHANGED <<ctx, sent, executed, world, node, reached,
                   clientAppVars>>

InitDescendMove ==
    /\ InitWorld
    /\ InitReached
    /\ node = BlockPos(-3, 64, 7)
    /\ world \in DescendWorlds(node)
    /\ edges = <<>>
    /\ ctx = NoCtx
    /\ sent = <<>>
    /\ executed = FALSE

SpecDescendMove ==
    /\ InitDescendMove
    /\ [][DescendMove]_vars

\* Vec3::horizontal_distance_sqr, in square tenths.
horizontal_distance_sqr(v) == v.x * v.x + v.z * v.z

\* Vec3 - Vec3.
Sub(a, b) == [x |-> a.x - b.x, y |-> a.y - b.y, z |-> a.z - b.z]

\* The block one further than the target along start -> target, at the
\* target's height.
dest_ahead(start, target) ==
    BlockPos(start.x + (target.x - start.x) * 2,
             target.y,
             start.z + (target.z - start.z) * 2)

DescendSprintsAlways(c) ==
    IF \/ 4 * horizontal_distance_sqr(Sub(center(c.start), c.position)) < 625
       \/ c.start.y - c.target.y = 1
      THEN <<LookAtEvent(center(dest_ahead(c.start, c.target))),
             StartSprintEvent("Forward")>>
      ELSE <<LookAtEvent(center(c.target)), StartSprintEvent("Forward")>>

\* execute_descend_move: the events it sends, in order.  A distance d (in
\* tenths) is compared with 0.25 or 1.25 blocks through 4 * d^2.
execute_descend_move(c) ==
    LET target_center == center(c.target)
        horizontal_distance_from_target_sqr ==
            horizontal_distance_sqr(Sub(target_center, c.position))
        horizontal_distance_from_start_sqr ==
            horizontal_distance_sqr(Sub(center(c.start), c.position))
    IN  IF \/ BlockPosFrom(c.position) # c.target
           \/ 4 * horizontal_distance_from_target_sqr > 25
          THEN IF \/ 4 * horizontal_distance_from_start_sqr < 625
                  \/ c.start.y - c.target.y = 1
                 THEN <<LookAtEvent(center(dest_ahead(c.start, c.target))),
                        StartSprintEvent("Forward")>>
                 ELSE <<LookAtEvent(target_center),
                        StartSprintEvent("Forward")>>
          ELSE <<>>

ReachedAtAnyHeight(c) ==
    \/ BlockPosFrom(c.position) = c.target
    \/ BlockPosFrom(c.position) = dest_ahead(c.start, c.target)

descend_is_reached(c) ==
    /\ \/ BlockPosFrom(c.position) = c.target
       \/ BlockPosFrom(c.position) = dest_ahead(c.start, c.target)
    /\ c.position.y - 10 * c.target.y < 5

\* Horizontal offsets of the bot from the centre of the start block, and
\* heights of the bot above the bottom of the target block, in tenths.
DescendOffsets == {-20, -13, -12, -10, -8, -7, -2, 0, 2, 7, 8, 10, 12, 13, 20}

\* The ExecuteCtx / IsReachedCtx of a Descend edge made by descend_move.
DescendCtx ==
    {[move |-> "descend", start |-> BlockPos(0, 3, 0),
      target |-> BlockPos(dir.x, 3 - fall, dir.z),
      position |-> [x |-> 5 + ox, y |-> 10 * (3 - fall) + oy, z |-> 5 + oz]] :
        dir \in CardinalDirection, fall \in 1..3,
        ox \in DescendOffsets, oy \in {-1, 0, 4, 5, 9, 10},
        oz \in DescendOffsets}

ExecuteDescend ==
    /\ ctx.move = "descend"
    /\ ~executed
    /\ executed' = TRUE
    /\ sent' = execute_descend_move(ctx)
    /\ UNCHANGED <<ctx, world, node, edges, reached, clientAppVars>>

DescendIsReached ==
    /\ ctx.move = "descend"
    /\ reached' = IF descend_is_reached(ctx) THEN "reached" ELSE "not reached"
    /\ UNCHANGED <<ctx, sent, executed, world, node, edges,
                   clientAppVars>>

InitDescend ==
    /\ InitWorld
    /\ InitEdges
    /\ InitReached
    /\ ctx \in DescendCtx
    /\ sent = <<>>
    /\ executed = FALSE

SpecDescend ==
    /\ InitDescend
    /\ [][\/ ExecuteDescend
          \/ DescendIsReached]_vars

\* ----------------------------------------------------------------------
\* Client::set_client_information, one lock acquisition at a time.
\* ----------------------------------------------------------------------

\* Calls of set_client_information that are made.
MaxCalls == 2

\* Client::query::<&mut T>: the entity has the component (the call panics
\* when it has not).
HasComponent(entity, component) ==
    /\ entity \in DOMAIN components
    /\ component \in components[entity]

\* Client::logged_in: the InstanceName that the login packet brings is there.
logged_in(entity) == HasComponent(entity, "InstanceName")

\* A caller calls client.set_client_information(information).
SetClientInformation ==
    /\ Len(calls) < MaxCalls
    /\ \E client \in clients, information \in ClientInformations :
          calls' = Append(calls, [entity |-> client.entity,
                                  information |-> information,
                                  pc |-> "store"])
    /\ UNCHANGED <<loginVars, moveVars, builder, built, panicked, client_pc,
                   join_result, clients, game_packets, ecsVars, taskVars>>

\* The first block of the call: lock the ECS, query the ClientInformation
\* component mutably and overwrite it.
StoreInformation(i) ==
    /\ calls[i].pc = "store"
    /\ lock(ecs_lock)
    /\ IF HasComponent(calls[i].entity, "ClientInformation")
         THEN /\ client_information' =
                    [client_information EXCEPT
                       ![calls[i].entity] = calls[i].information]
              /\ calls' = [calls EXCEPT ![i].pc = "logged_in"]
         ELSE /\ calls' = [calls EXCEPT ![i].pc = "panicked"]
              /\ UNCHANGED client_information
    /\ UNCHANGED <<loginVars, moveVars, builder, built, panicked, client_pc,
                   join_result, clients, game_packets, entities,
                   entity_uuid_index, components, game_profile,
                   raw_connection, is_connection_alive, events_a, events_b,
                   handled, synthesized, taskVars>>

\* if self.logged_in() { .. } Ok(())
CheckLoggedIn(i) ==
    /\ calls[i].pc = "logged_in"
    /\ lock(ecs_lock)
    /\ calls' = [calls EXCEPT
                   ![i].pc = IF logged_in(calls[i].entity)
                               THEN "write_packet" ELSE "Ok"]
    /\ UNCHANGED <<loginVars, moveVars, builder, built, panicked, client_pc,
                   join_result, clients, game_packets, ecsVars, taskVars>>

\* self.write_packet(ServerboundClientInformationPacket{information}.get())?
\* locks the ECS and writes to the entity's RawConnection, which fails
\* when the connection's tasks have ended.
WriteInformation(i) ==
    /\ calls[i].pc = "write_packet"
    /\ lock(ecs_lock)
    /\ IF ~HasComponent(calls[i].entity, "RawConnection")
         THEN /\ calls' = [calls EXCEPT ![i].pc = "panicked"]
              /\ UNCHANGED game_packets
         ELSE IF raw_connection[calls[i].entity].alive
                THEN /\ game_packets' =
                           Put(game_packets, calls[i].entity,
                               Append(Get(game_packets, calls[i].entity, <<>>),
                                      calls[i].information))
                     /\ calls' = [calls EXCEPT ![i].pc = "Ok"]
                ELSE /\ calls' = [calls EXCEPT ![i].pc = "Err"]
                     /\ UNCHANGED game_packets
    /\ UNCHANGED <<loginVars, moveVars, builder, built, panicked, client_pc,
                   join_result, clients, ecsVars, taskVars>>

\* One client, the schedule and callers of set_client_information.
SpecInformation ==
    /\ Init
    /\ [][\/ JoinNewEcs
          \/ RunSchedule
          \/ ConnectionDies
          \/ SetClientInformation
          \/ (\E i \in 1..Len(calls) : StoreInformation(i))
          \/ (\E i \in 1..Len(calls) : CheckLoggedIn(i))
          \/ (\E i \in 1..Len(calls) : WriteInformation(i))]_vars

BasicMoveForwardTwice(w, pos) ==
    forward_move(w, pos) \o forward_move(w, pos) \o ascend_move(w, pos)
      \o descend_move(w, pos) \o diagonal_move(w, pos)

\* basic_move: the edges of the four families, in the order they are
\* extended.
basic_move(w, pos) ==
    forward_move(w, pos) \o ascend_move(w, pos) \o descend_move(w, pos)
      \o diagonal_move(w, pos)

\* The worlds basic_move is run on. About each cardinal direction the
\* Instance answers whether the neighbour, the block above it, the landing
\* below it and the corner to its right are standable, whether its column
\* is passable and how far the fall is: every answer about North and East,
\* the other two directions both closed (nothing can be done) or both open
\* (everything can).
BasicWorlds(pos) ==
    LET Profiles ==
            [forward : BOOLEAN, ascend : BOOLEAN, fall : Falls,
             passable : BOOLEAN, landing : BOOLEAN, corner : BOOLEAN]
        Closed ==
            [forward |-> FALSE, ascend |-> FALSE, fall |-> 0,
             passable |-> FALSE, landing |-> FALSE, corner |-> FALSE]
        Open ==
            [forward |-> TRUE, ascend |-> TRUE, fall |-> 3,
             passable |-> TRUE, landing |-> TRUE, corner |-> TRUE]
        Q(dir) == Add(pos, BlockPos(dir.x, 0, dir.z))
        WorldAround(profile, headroom) ==
            [standable |->
               {Q(dir) :
                  dir \in {d \in CardinalDirection : profile[d].forward}}
               \cup {up(Q(dir), 1) :
                  dir \in {d \in CardinalDirection : profile[d].ascend}}
               \cup {down(Q(dir), profile[dir].fall) :
                  dir \in {d \in CardinalDirection : profile[d].landing}}
               \cup {Add(Q(dir), BlockPos(right(dir).x, 0, right(dir).z)) :
                  dir \in {d \in CardinalDirection : profile[d].corner}},
             passable |->
               {Q(dir) :
                  dir \in {d \in CardinalDirection : profile[d].passable}},
             block_passable |-> IF headroom THEN {up(pos, 2)} ELSE {},
             fall_distance |->
               [q \in {Q(dir) : dir \in CardinalDirection} |->
                  profile[CHOOSE dir \in CardinalDirection : Q(dir) = q].fall]]
    IN  {WorldAround([dir \in CardinalDirection |->
                        IF dir \in DOMAIN varied THEN varied[dir] ELSE rest],
                     headroom) :
            varied \in [{iter[1], iter[4]} -> Profiles],
            rest \in {Closed, Open},
            headroom \in BOOLEAN}

BasicMove ==
    /\ edges' = basic_move(world, node)
    /\ UNCHANGED <<ctx, sent, executed, world, node, reached,
                   clientAppVars>>

InitBasic ==
    /\ InitWorld
    /\ InitReached
    /\ node \in Nodes
    /\ world \in BasicWorlds(node)
    /\ edges = <<>>
    /\ ctx = NoCtx
    /\ sent = <<>>
    /\ executed = FALSE

SpecBasic ==
    /\ InitBasic
    /\ [][BasicMove]_vars

\* ----------------------------------------------------------------------
\* ArgumentBuilder (azalea-brigadier)
\* ----------------------------------------------------------------------

\* The names nodes are made with.
Names == {"a", "b"}

\* ArgumentBuilder::new
new(value) ==
    [arguments |-> [value |-> value, command |-> "None",
                    requirement |-> "true", redirect |-> "None",
                    modifier |-> "None", forks |-> FALSE,
                    children |-> <<>>],
     command |-> "None", requirement |-> "true", forks |-> FALSE,
     modifier |-> "None", target |-> "None"]

RECURSIVE add_child(_, _)

\* CommandNode::add_child: a node of a new name becomes a child under that
\* name; a node of a name that is already a child is merged onto that child
\* (its command, when it has one, and its own children).
add_child(self, child_) ==
    LET RECURSIVE merge(_, _)
        merge(onto, names) ==
            IF names = {}
              THEN onto
              ELSE LET name == CHOOSE n \in names : TRUE
                   IN  merge(add_child(onto, child_.children[name]),
                             names \ {name})
    IN  IF child_.value \in DOMAIN self.children
          THEN [self EXCEPT
                  !.children[child_.value] =
                     merge([@ EXCEPT
                              !.command = IF child_.command # "None"
                                            THEN child_.command ELSE @],
                           DOMAIN child_.children)]
          ELSE [self EXCEPT !.children = Put(@, child_.value, child_)]

\* ArgumentBuilder::then_built
then_built(self, argument) ==
    [self EXCEPT !.arguments = add_child(@, argument)]

\* ArgumentBuilder::build
build(self) ==
    LET RECURSIVE add_children(_, _)
        add_children(result_, names) ==
            IF names = {}
              THEN result_
              ELSE LET name == CHOOSE n \in names : TRUE
                   IN  add_children(
                         add_child(result_, self.arguments.children[name]),
                         names \ {name})
    IN  add_children([value |-> self.arguments.value,
                      command |-> self.command,
                      requirement |-> self.requirement,
                      redirect |-> self.target,
                      modifier |-> self.modifier,
                      forks |-> self.forks,
                      children |-> <<>>],
                     DOMAIN self.arguments.children)

\* ArgumentBuilder::forward: the builder it returns, or the panic.
forward(self, target, modifier, fork) ==
    IF DOMAIN self.arguments.children # {}
      THEN [panic |-> "Cannot forward a node with children"]
      ELSE [self EXCEPT !.target = target, !.modifier = modifier,
                        !.forks = fork]

\* A call on the builder returns the builder it was given, or panics and
\* drops it.
Returns(returned) ==
    /\ IF "panic" \in DOMAIN returned
         THEN /\ builder' = NoBuilder
              /\ panicked' = returned.panic
         ELSE /\ builder' = returned
              /\ UNCHANGED panicked
    /\ UNCHANGED <<built, loginVars, moveVars, client_pc, join_result,
                   clients, calls, game_packets, ecsVars, taskVars>>

New ==
    /\ builder = NoBuilder
    /\ built = NoNode
    /\ panicked = "None"
    /\ \E value \in Names : Returns(new(value))

\* then(argument) == then_built(argument.build()); the argument is a new
\* builder, with or without a command.
Then ==
    /\ builder # NoBuilder
    /\ \E value \in Names, command \in {"None", "f"} :
          Returns(then_built(builder,
                             build([new(value) EXCEPT !.command = command])))

\* then_built(argument); the argument is a built node, with or without a
\* command and a child of its own.
ThenBuilt ==
    /\ builder # NoBuilder
    /\ \E value \in Names, command \in {"None", "f"},
          child_ \in {"None", "a"} :
          LET argument == [new(value) EXCEPT !.command = command]
          IN  Returns(then_built(builder,
                 build(IF child_ = "None"
                         THEN argument
                         ELSE then_built(argument, build(new(child_))))))

\* executes(f)
Executes ==
    /\ builder # NoBuilder
    /\ Returns([builder EXCEPT !.command = "f"])

\* requires(requirement)
Requires ==
    /\ builder # NoBuilder
    /\ Returns([builder EXCEPT !.requirement = "r"])

\* redirect(target) == forward(target, None, false)
Redirect ==
    /\ builder # NoBuilder
    /\ \E target \in Names : Returns(forward(builder, target, "None", FALSE))

\* fork(target, modifier) == forward(target, Some(modifier), true)
Fork ==
    /\ builder # NoBuilder
    /\ \E target \in Names : Returns(forward(builder, target, "m", TRUE))

Forward ==
    /\ builder # NoBuilder
    /\ \E target \in Names, modifier \in {"None", "m"}, fork \in BOOLEAN :
          Returns(forward(builder, target, modifier, fork))

\* build consumes the builder and returns the node.
Build ==
    /\ builder # NoBuilder
    /\ built' = build(builder)
    /\ builder' = NoBuilder
    /\ UNCHANGED <<panicked, loginVars, moveVars, client_pc, join_result,
                   clients, calls, game_packets, ecsVars, taskVars>>

SpecBuilder ==
    Init /\ [][New \/ Then \/ ThenBuilt \/ Executes \/ Requires \/ Redirect
                \/ Fork \/ Forward \/ Build]_vars

\* ======================================================================
\* Properties of Client::handshake
\* ======================================================================

\* C1: while one Hello is handled for an account with an access token, a
\* first authentication failure with InvalidSession or ForbiddenOperation
\* is followed by exactly one refresh and exactly one retry, and a failure
\* of the second attempt is what handshake returns; so at most two
\* authenticate calls and at most one refresh per Hello.
C1_RetryOncePerHello ==
    /\ Len(authLog) <= 2
    /\ Len(refreshLog) <= 1
    /\ (/\ authLog # <<>>
        /\ authLog[1] \in {"InvalidSession", "ForbiddenOperation"}
        /\ pc # "refresh")
          => Len(refreshLog) = 1
    /\ Len(authLog) = 2
          => /\ authLog[1] \in {"InvalidSession", "ForbiddenOperation"}
             /\ refreshLog = <<TRUE>>
    /\ (refreshLog = <<TRUE>> /\ pc # "authenticate") => Len(authLog) = 2
    /\ (Len(authLog) = 2 /\ authLog[2] # "Ok")
          => result.kind = "SessionServer" /\ result.val = authLog[2]

\* The second attempt of one Hello failed and handshake returned its error.
C1_Witness ==
    /\ access_token
    /\ Len(authLog) = 2
    /\ refreshLog = <<TRUE>>
    /\ result.kind = "SessionServer"

\* C2 as stated: over the whole handshake the token is refreshed at most
\* once and authenticate is called at most twice.
C2_Original ==
    /\ refreshCalls <= 1
    /\ authCalls <= 2

\* C2 as amended: over the whole handshake the token is refreshed at most
\* once per Hello packet received and authenticate is called at most twice
\* per Hello packet received.
C2_RetryBoundedByHellos ==
    /\ refreshCalls <= hellos
    /\ authCalls <= 2 * hellos

\* Two Hello packets each caused a refresh.
C2_Witness ==
    /\ hellos = 2
    /\ refreshCalls = 2
    /\ authCalls = 4

\* C3: an authentication error other than InvalidSession/ForbiddenOperation
\* is returned at once without a refresh, and so is a failed refresh; the
\* Hello that failed gets no KeyPacket (nothing is written after it
\* arrived), its key is not enabled, encryption stays as it was and the
\* phase is still Login.
C3_AuthFailureIsFatal ==
    /\ (authLog # <<>> /\ authLog[1] = "Other")
          => /\ refreshLog = <<>>
             /\ Len(authLog) = 1
             /\ result.kind = "SessionServer"
             /\ result.val = authLog[1]
    /\ (refreshLog # <<>> /\ ~refreshLog[1])
          => result.kind = "Auth"
    /\ result.kind \in {"SessionServer", "Auth"}
          => /\ pc = "done"
             /\ phase = "Login"
             /\ Len(written) = writtenAtHello
             /\ encryption_key # secret_key
             /\ \A i \in 1..Len(written) :
                   written[i].packet = "Key" => written[i].val # secret_key
             /\ hellos = 1 => encryption_key = None

\* The first authentication attempt failed with another error.
C3_Witness ==
    /\ authLog = <<"Other">>
    /\ result.kind = "SessionServer"
    /\ hellos = 1

\* C4: the KeyPacket of a Hello goes out under the encryption state that
\* was in force before it, and the key is enabled in the same step only
\* when that write succeeded; with an access token the KeyPacket is written
\* only after an authentication succeeded; every packet after a KeyPacket
\* is written encrypted.
C4_KeyThenEncryption ==
    /\ [](/\ \A i, j \in 1..Len(written) :
                (i < j /\ written[i].packet = "Key") => written[j].encrypted
          /\ \A i \in 1..Len(written) :
                (written[i].packet = "Key"
                   /\ \A k \in 1..(i-1) : written[k].packet # "Key")
                => ~written[i].encrypted
          /\ encryption_key # None
                => \E i \in 1..Len(written) :
                      /\ written[i].packet = "Key"
                      /\ written[i].val = encryption_key
          /\ (pc = "write_key" /\ access_token)
                => authLog # <<>> /\ Last(authLog) = "Ok")
    /\ [][/\ encryption_key' # encryption_key
                => /\ Len(written') = Len(written) + 1
                   /\ Last(written').packet = "Key"
                   /\ Last(written').val = encryption_key'
                   /\ Last(written').encrypted = (encryption_key # None)
          /\ (Len(written') > Len(written) /\ Last(written').packet = "Key")
                => /\ encryption_key' = Last(written').val
                   /\ access_token => (authLog # <<>> /\ Last(authLog) = "Ok")
         ]_vars

\* An authenticated Hello was answered with a KeyPacket and a later packet
\* went out encrypted.
C4_Witness ==
    /\ access_token
    /\ \E i, j \in 1..Len(written) :
          /\ i < j
          /\ written[i].packet = "Key"
          /\ ~written[i].encrypted
          /\ written[j].encrypted

\* C5 as stated: once the compression threshold is set it never changes.
C5_Original ==
    [][compression_threshold # None
          => compression_threshold' = compression_threshold]_vars

\* C6: the phase only moves Handshake -> Login -> Configuration; to Login
\* only with the write of ClientIntention(Login), to Configuration only
\* with the write of LoginAcknowledged while a GameProfile is handled; the
\* other packets of the login loop leave it alone.
C6_PhaseForwardOnly ==
    /\ [](/\ phase \in {"Handshake", "Login", "Configuration"}
          /\ phase = "Handshake" => written = <<>>
          /\ phase = "Configuration" => result.kind = "Ok"
          /\ pc \in {"write_hello", "read", "authenticate", "refresh",
                     "write_key", "write_login_acknowledged",
                     "write_custom_query_answer"} => phase = "Login")
    /\ [][phase' # phase
            => \/ /\ phase = "Handshake" /\ phase' = "Login"
                  /\ Len(written') = Len(written) + 1
                  /\ Last(written').packet = "ClientIntention"
                  /\ Last(written').val = "Login"
                  /\ Last(written').phase = "Handshake"
               \/ /\ phase = "Login" /\ phase' = "Configuration"
                  /\ p.type = "GameProfile"
                  /\ Len(written') = Len(written) + 1
                  /\ Last(written').packet = "LoginAcknowledged"
                  /\ Last(written').phase = "Login"
         ]_vars

\* The login loop handled other packets and then reached Configuration.
C6_Witness ==
    /\ phase = "Configuration"
    /\ packetsRead = MaxPackets
    /\ compression_threshold # None
    /\ encryption_key # None

\* ======================================================================
\* Properties of Client::start_client and of the disconnect systems
\* ======================================================================

C8_OneEntityPerUuid ==
    /\ [](/\ \A pr, qr \in entity_uuid_index :
                (pr[1] = qr[1] \/ pr[2] = qr[2]) => pr = qr
          /\ {pr[2] : pr \in entity_uuid_index} = entities
          /\ \A pr \in entity_uuid_index : game_profile[pr[2]] = pr[1]
          /\ \A client \in clients :
                <<client.profile, client.entity>> \in entity_uuid_index)
    /\ [][Join
            => \E uuid \in Uuids, entity \in entities' :
                  /\ clients' = clients
                        \cup {[entity |-> entity, profile |-> uuid]}
                  /\ IF \E pr \in entity_uuid_index : pr[1] = uuid
                       THEN /\ <<uuid, entity>> \in entity_uuid_index
                            /\ entities' = entities
                            /\ entity_uuid_index' = entity_uuid_index
                       ELSE /\ entity \notin entities
                            /\ entities' = entities \cup {entity}
                            /\ entity_uuid_index' = entity_uuid_index
                                  \cup {<<uuid, entity>>}
         ]_vars

\* A join with the uuid of an earlier one reused its entity: the entity's
\* IsConnectionAlive still tells of the dead connection a pass saw, its
\* RawConnection is the live one of the new join; and another uuid has
\* its own entity.
C8_Witness ==
    /\ Cardinality(entities) = 2
    /\ \E e \in entities :
          /\ {"IsConnectionAlive", "InConfigurationState"}
                \subseteq components[e]
          /\ ~is_connection_alive[e].value
          /\ raw_connection[e] = NewRawConnection

\* C9: a schedule pass consumes every DisconnectEvent that is unread when
\* it starts and every one disconnect_on_connection_dead sends during it,
\* and when the pass ends the entities of those events have none of the
\* JoinedClientBundle components.
C9_DisconnectWithinOnePass ==
    /\ [](/\ synthesized \subseteq handled
          /\ \A e \in handled : components[e] \cap JoinedClientBundle = {}
          /\ \A ev \in events_b : ev.read)
    /\ [][RunSchedule
            => /\ \A ev \in events_a : ~ev.read => ev.entity \in handled'
               /\ \A ev \in events_a' : ev.read
               /\ synthesized' = {ev.entity : ev \in events_a'}
         ]_vars

\* A logged-in client's connection died, and the pass that sent the
\* DisconnectEvent for it also removed its JoinedClientBundle.
C9_Witness ==
    \E e \in synthesized :
       /\ e \in handled
       /\ "InstanceName" \in components[e]
       /\ components[e] \cap JoinedClientBundle = {}

\* C10 as stated: when a pass has handled the DisconnectEvent of an entity,
\* the entity has no RawConnection any more.
C10_Original ==
    [][RunSchedule
         => \A e \in handled' : "RawConnection" \notin components'[e]]_vars

\* ======================================================================
\* Properties of the connection watch, the tasks and the ECS lock
\* ======================================================================

\* C11 as stated: a pass that finds the RawConnection of an entity dead
\* leaves its IsConnectionAlive false; the next pass that still finds it
\* dead sends a DisconnectEvent for the entity (two passes at most); and
\* no pass sends a DisconnectEvent for an entity whose connection is alive.
C11_Original ==
    [][RunSchedule
         => /\ \A e \in entities :
                  ("RawConnection" \in components[e]
                     /\ ~raw_connection[e].alive)
                  => /\ "IsConnectionAlive" \in components'[e]
                     /\ ~is_connection_alive'[e].value
            /\ \A e \in entities :
                  (/\ "RawConnection" \in components[e]
                   /\ ~raw_connection[e].alive
                   /\ "IsConnectionAlive" \in components[e]
                   /\ ~is_connection_alive[e].value)
                  => e \in synthesized'
            /\ \A e \in synthesized' : ~raw_connection[e].alive
    ]_vars

\* C12 as stated: the one connection of a client created by Client::join
\* dies once, so a pass does not send a DisconnectEvent for an entity for
\* which the pass before it has sent one.
C12_Original ==
    [][RunScheduleLocked => synthesized' \cap synthesized = {}]_vars

\* C13 as stated: within two schedule passes of a DisconnectEvent both
\* background tasks have exited: when the pass after the one that consumed
\* the event ends, run_schedule_loop and tick_run_schedule_loop have
\* returned.
C13_Original ==
    [][(RunScheduleLocked /\ handled # {})
         => /\ run_schedule_loop_pc' = "returned"
            /\ tick_task' = "returned"]_vars

\* C14 as stated: the scheduler drains the channel, so when it has taken
\* the signals for a run none is left queued to cause a run of its own.
C14_Original ==
    [][Recv => run_schedule_channel' = 0]_vars

\* C15: the lock is held exactly while run_schedule_loop is between
\* ecs.lock() and the end of its loop body; while it is held, the only
\* step that touches what the lock guards is the pass itself, which ends
\* by releasing the lock; and every other party changes the world only in
\* a step that finds the lock free.
C15_PassHoldsLock ==
    /\ [](/\ ecs_lock \in {"free", "run_schedule_loop"}
          /\ ecs_lock = "run_schedule_loop" <=> run_schedule_loop_pc = "run")
    /\ [][ecs_lock = "run_schedule_loop"
            => \/ /\ ecs_lock' = "free"
                  /\ run_schedule_loop_pc' = "recv"
               \/ /\ ecs_lock' = ecs_lock
                  /\ WorldData' = WorldData
                  /\ clients' = clients
         ]_vars
    /\ [][(WorldData' # WorldData /\ run_schedule_loop_pc # "run")
            => ecs_lock = "free" /\ ecs_lock' = "free"]_vars

\* run_schedule_loop holds the lock while a logged-in client exists and a
\* signal is already queued behind the pass.
C15_Witness ==
    /\ ecs_lock = "run_schedule_loop"
    /\ run_schedule_channel > 0
    /\ \E client \in clients :
          "ClientInformation" \in components[client.entity]

\* C16 as stated: what the lock guards changes only in a schedule pass of
\* run_schedule_loop.
C16_Original ==
    [][WorldData' # WorldData => RunScheduleLocked]_vars

\* C17: Client::disconnect queues an unread DisconnectEvent for its entity
\* and neither raises the run-schedule signal nor touches the entity; the
\* event stays queued, and the entity as it is, until a pass runs; the
\* first pass that runs consumes it and removes JoinedClientBundle; and
\* with the tick task signalling, that pass comes.
C17_DisconnectAtNextPass ==
    /\ [][Disconnect
            => /\ run_schedule_channel' = run_schedule_channel
               /\ components' = components
               /\ \E client \in clients :
                     [entity |-> client.entity, read |-> FALSE] \in events_a'
         ]_vars
    /\ [][run_schedule_loop_pc # "run"
            => \A ev \in events_a :
                  ~ev.read => /\ ev \in events_a'
                              /\ components'[ev.entity]
                                    = components[ev.entity]
         ]_vars
    /\ [][RunScheduleLocked
            => /\ \A ev \in events_a :
                     ~ev.read
                       => /\ ev.entity \in handled'
                          /\ components'[ev.entity] \cap JoinedClientBundle
                                = {}
               /\ \A ev \in events_a' \cup events_b' : ev.read
         ]_vars
    /\ \A e \in 1..Cardinality(Uuids) :
          ([entity |-> e, read |-> FALSE] \in events_a) ~> (e \in handled)

\* The DisconnectEvent of a logged-in client that called disconnect was
\* consumed by a pass although the connection was alive all along.
C17_Witness ==
    \E e \in handled :
       /\ e \notin synthesized
       /\ raw_connection[e].alive
       /\ "InstanceName" \in components[e]
       /\ components[e] \cap JoinedClientBundle = {}

\* C18 as stated: the tick task sends one signal per tick that is due, and
\* in catching up after a stall it sends at most 10 signals back to back,
\* within one period, dropping the ticks missed beyond that.
C18_Original ==
    /\ [](burst <= 10)
    /\ [][Tick => /\ run_schedule_channel' = run_schedule_channel + 1
                  /\ due' = due - 1]_vars

\* ======================================================================
\* More properties of Client::handshake and Client::start_client
\* ======================================================================

\* C19: handshake returns JoinError::Disconnect only for a LoginDisconnect
\* packet and with that packet's reason; from the moment the packet is read
\* nothing more is written and the phase stays Login; and start_client
\* returns the error with no entity, no component, no index entry and no
\* Client created.
C19_LoginDisconnectRegistersNothing ==
    /\ [](result.kind = "Disconnect"
            => /\ p.type = "LoginDisconnect"
               /\ result.val = p.val
               /\ pc = "done"
               /\ phase = "Login"
               /\ client_pc \in {"handshake", "returned"}
               /\ client_pc = "returned" => join_result = "Err"
               /\ entities = {}
               /\ entity_uuid_index = {}
               /\ components = <<>>
               /\ clients = {})
    /\ [](p.type = "LoginDisconnect" => result.kind = "Disconnect")
    /\ [][(p'.type = "LoginDisconnect" \/ result.kind = "Disconnect")
            => written' = written /\ phase' = phase]_vars

\* The server disconnected the client after encryption and compression
\* were set up, and start_client returned the error.
C19_Witness ==
    /\ result.kind = "Disconnect"
    /\ client_pc = "returned"
    /\ packetsRead = MaxPackets
    /\ encryption_key # None
    /\ compression_threshold # None

\* ======================================================================
\* Properties of the pathfinder's basic moves
\* ======================================================================

\* C20 as stated: the Ascend executor always sends LookAt(target centre)
\* and StartWalk(Forward), and it sends a Jump if and only if
\* |lateral_motion| <= 0.1, flat_distance_to_next <= 1.2 and
\* side_distance <= 0.2.
C20_Original ==
    (ctx.move = "ascend" /\ sent # <<>>)
      => LET along == IF ctx.target.x # ctx.start.x THEN "x" ELSE "z"
             to_centre == [x |-> 10 * ctx.target.x + 5 - ctx.position.x,
                           z |-> 10 * ctx.target.z + 5 - ctx.position.z]
             flat == IF along = "x" THEN to_centre.x ELSE to_centre.z
             side == IF along = "x" THEN Abs(to_centre.z)
                                    ELSE Abs(to_centre.x)
             lateral == IF along = "x" THEN ctx.delta.z ELSE ctx.delta.x
             events == {sent[i] : i \in 1..Len(sent)}
         IN  /\ LookAtEvent(center(ctx.target)) \in events
             /\ StartWalkEvent("Forward") \in events
             /\ JumpEvent \in events
                   <=> (Abs(lateral) <= 1 /\ flat <= 12 /\ side <= 2)

\* C25: forward_move yields an edge to node + (dx,0,dz), for a cardinal
\* (dx,dz), if and only if that target is standable, once, with cost
\* SPRINT_ONE_BLOCK_COST; the Forward and Diagonal executors send exactly
\* LookAt(target centre) and StartSprint(Forward), and no Jump or Walk event.
C25_ForwardEdgesAndSprint ==
    /\ [][ForwardMove =>
            /\ \A dir \in CardinalDirection :
                 LET target == Add(node, BlockPos(dir.x, 0, dir.z))
                     to == {i \in 1..Len(edges') : edges'[i].target = target}
                 IN  /\ (to # {}) <=> is_standable(target, world)
                     /\ Cardinality(to) <= 1
            /\ \A i \in 1..Len(edges') :
                 /\ edges'[i].cost = SPRINT_ONE_BLOCK_COST
                 /\ \E dir \in CardinalDirection :
                      edges'[i].target = Add(node, BlockPos(dir.x, 0, dir.z))]_vars
    /\ [][(ExecuteForward \/ ExecuteDiagonal) =>
            sent' = <<LookAtEvent(center(ctx.target)),
                      StartSprintEvent("Forward")>>]_vars

\* forward_move has returned edges to some neighbours and none to another,
\* and an executor has sent its events.
C25_Witness ==
    /\ edges # <<>>
    /\ Len(edges) < 4
    /\ sent # <<>>

\* C24: ascend_move yields an edge to node + (dx,+1,dz), for a cardinal
\* (dx,dz), if and only if node.up(2) is passable and the target is
\* standable, once, with cost SPRINT_ONE_BLOCK_COST + JUMP_ONE_BLOCK_COST;
\* ascend_is_reached holds exactly when the block the bot is in is the
\* target or the block below the target.
C24_AscendEdgesAndReached ==
    /\ [][AscendMove =>
            /\ \A dir \in CardinalDirection :
                 LET target == Add(node, BlockPos(dir.x, 1, dir.z))
                     to == {i \in 1..Len(edges') : edges'[i].target = target}
                 IN  /\ (to # {}) <=> /\ is_block_passable(up(node, 2), world)
                                      /\ is_standable(target, world)
                     /\ Cardinality(to) <= 1
            /\ \A i \in 1..Len(edges') :
                 /\ edges'[i].cost = SPRINT_ONE_BLOCK_COST + JUMP_ONE_BLOCK_COST
                 /\ edges'[i].execute = "execute_ascend_move"
                 /\ edges'[i].is_reached = "ascend_is_reached"
                 /\ \E dir \in CardinalDirection :
                      edges'[i].target = Add(node, BlockPos(dir.x, 1, dir.z))]_vars
    /\ [][AscendIsReached =>
            (reached' = "reached")
              <=> \E block \in {ctx.target, down(ctx.target, 1)} :
                     /\ 10 * block.x <= ctx.position.x
                     /\ ctx.position.x < 10 * block.x + 10
                     /\ 10 * block.y <= ctx.position.y
                     /\ ctx.position.y < 10 * block.y + 10
                     /\ 10 * block.z <= ctx.position.z
                     /\ ctx.position.z < 10 * block.z + 10]_vars

\* ascend_move has returned edges, and ascend_is_reached has answered yes
\* for a bot in the block below the target.
C24_Witness ==
    /\ edges # <<>>
    /\ Len(edges) < 4
    /\ reached = "reached"
    /\ BlockPosFrom(ctx.position) = down(ctx.target, 1)

\* C23: diagonal_move yields an edge to each corner node + (dx,0,dz),
\* |dx| = |dz| = 1, exactly once, if and only if at least one of the two
\* adjacent cardinal cells node + (dx,0,0), node + (0,0,dz) is passable and
\* the corner is standable; its cost is SPRINT_ONE_BLOCK_COST * sqrt(2) +
\* 0.001, more than one forward edge and less than two.
C23_DiagonalEdges ==
    [][DiagonalMove =>
        /\ \A dx \in {-1, 1}, dz \in {-1, 1} :
             LET target == Add(node, BlockPos(dx, 0, dz))
                 to == {i \in 1..Len(edges') : edges'[i].target = target}
             IN  /\ (to # {})
                       <=> /\ \/ is_passable(Add(node, BlockPos(dx, 0, 0)), world)
                              \/ is_passable(Add(node, BlockPos(0, 0, dz)), world)
                           /\ is_standable(target, world)
                 /\ Cardinality(to) <= 1
        /\ \A i \in 1..Len(edges') :
             /\ \E dx \in {-1, 1}, dz \in {-1, 1} :
                  edges'[i].target = Add(node, BlockPos(dx, 0, dz))
             /\ edges'[i].cost = (SPRINT_ONE_BLOCK_COST * SQRT_2) \div 1000 + 1
             /\ edges'[i].cost > SPRINT_ONE_BLOCK_COST
             /\ edges'[i].cost < 2 * SPRINT_ONE_BLOCK_COST]_vars

\* diagonal_move has returned an edge to a corner only one of whose adjacent
\* cardinal cells is passable, and none to a standable corner with neither.
C23_Witness ==
    /\ \E i \in 1..Len(edges) :
          LET dx == edges[i].target.x - node.x
              dz == edges[i].target.z - node.z
          IN  ~ /\ is_passable(Add(node, BlockPos(dx, 0, 0)), world)
                /\ is_passable(Add(node, BlockPos(0, 0, dz)), world)
    /\ \E dx \in {-1, 1}, dz \in {-1, 1} :
          /\ is_standable(Add(node, BlockPos(dx, 0, dz)), world)
          /\ \A i \in 1..Len(edges) :
                edges[i].target # Add(node, BlockPos(dx, 0, dz))

\* C22: for each cardinal direction, with Q = node + (dx,0,dz) and
\* d = fall_distance(Q), descend_move yields an edge to Q.down(d) if and only
\* if 1 <= d <= 3, the column at Q is passable and Q.down(d) is standable;
\* the edge costs SPRINT_ONE_BLOCK_COST + FALL_ONE_BLOCK_COST * d and carries
\* the descend executor and descend_is_reached; no other edge is produced.
C22_DescendEdges ==
    [][DescendMove =>
        /\ \A dir \in CardinalDirection :
             LET Q == Add(node, BlockPos(dir.x, 0, dir.z))
                 d == fall_distance(Q, world)
                 to == {i \in 1..Len(edges') :
                           /\ edges'[i].target.x = Q.x
                           /\ edges'[i].target.z = Q.z}
             IN  /\ (to # {}) <=> /\ 1 <= d
                                  /\ d <= 3
                                  /\ is_passable(Q, world)
                                  /\ is_standable(down(Q, d), world)
                 /\ Cardinality(to) <= 1
                 /\ \A i \in to :
                      /\ edges'[i].target = down(Q, d)
                      /\ edges'[i].cost = SPRINT_ONE_BLOCK_COST
                                            + FALL_ONE_BLOCK_COST * d
                      /\ edges'[i].execute = "execute_descend_move"
                      /\ edges'[i].is_reached = "descend_is_reached"
        /\ \A i \in 1..Len(edges') :
             \E dir \in CardinalDirection :
                /\ edges'[i].target.x = node.x + dir.x
                /\ edges'[i].target.z = node.z + dir.z]_vars

\* descend_move has returned an edge for a fall of three blocks and none for
\* a passable column with a standable landing four blocks down.
C22_Witness ==
    /\ \E i \in 1..Len(edges) : edges[i].target.y = node.y - 3
    /\ \E dir \in CardinalDirection :
          LET Q == Add(node, BlockPos(dir.x, 0, dir.z))
          IN  /\ fall_distance(Q, world) = 4
              /\ is_passable(Q, world)
              /\ is_standable(down(Q, 4), world)

\* C21 as stated: whenever the Descend executor runs it sends exactly one
\* LookAt and one StartSprint(Forward), the LookAt aiming at dest_ahead when
\* the fall is one block or the bot is less than 1.25 from the start centre,
\* and at the target centre otherwise; it never sends nothing.
C21_Original ==
    [][ExecuteDescend =>
        LET near_start ==
                4 * ((5 + 10 * ctx.start.x - ctx.position.x)
                       * (5 + 10 * ctx.start.x - ctx.position.x)
                     + (5 + 10 * ctx.start.z - ctx.position.z)
                       * (5 + 10 * ctx.start.z - ctx.position.z)) < 625
            aim == IF ctx.start.y - ctx.target.y = 1 \/ near_start
                     THEN center(dest_ahead(ctx.start, ctx.target))
                     ELSE center(ctx.target)
        IN  sent' = <<LookAtEvent(aim), StartSprintEvent("Forward")>>]_vars

\* C21, amended: the Descend executor sends exactly LookAt and
\* StartSprint(Forward), aimed as stated, on every tick on which the bot is
\* outside the target block or more than 0.25 from the target centre
\* horizontally; inside the target block and within 0.25 of its centre it
\* sends nothing.
C21_DescendSprintsUnlessCentred ==
    [][ExecuteDescend =>
        LET near_start ==
                4 * ((5 + 10 * ctx.start.x - ctx.position.x)
                       * (5 + 10 * ctx.start.x - ctx.position.x)
                     + (5 + 10 * ctx.start.z - ctx.position.z)
                       * (5 + 10 * ctx.start.z - ctx.position.z)) < 625
            aim == IF ctx.start.y - ctx.target.y = 1 \/ near_start
                     THEN center(dest_ahead(ctx.start, ctx.target))
                     ELSE center(ctx.target)
            centred ==
                /\ BlockPosFrom(ctx.position) = ctx.target
                /\ 4 * ((5 + 10 * ctx.target.x - ctx.position.x)
                          * (5 + 10 * ctx.target.x - ctx.position.x)
                        + (5 + 10 * ctx.target.z - ctx.position.z)
                          * (5 + 10 * ctx.target.z - ctx.position.z)) <= 25
        IN  sent' = IF centred
                      THEN <<>>
                      ELSE <<LookAtEvent(aim), StartSprintEvent("Forward")>>]_vars

\* The executor has run with the bot inside the target block, within 0.25 of
\* its centre and still more than half a block above its floor, and has sent
\* nothing.
C21_Witness ==
    /\ ctx.move = "descend"
    /\ executed
    /\ BlockPosFrom(ctx.position) = ctx.target
    /\ ctx.position.y - 10 * ctx.target.y >= 5
    /\ sent = <<>>

\* C26: descend_is_reached holds if and only if the block the bot is in is
\* the target or dest_ahead (start + 2*(target - start) horizontally, at the
\* target's height) and the bot is less than half a block above the target's
\* floor; the block the Descend executor aims at, when it does not aim at the
\* target, is that same dest_ahead.
C26_DescendReached ==
    /\ [][DescendIsReached =>
            LET ahead == BlockPos(2 * ctx.target.x - ctx.start.x, ctx.target.y,
                                  2 * ctx.target.z - ctx.start.z)
                inside(block) ==
                    /\ 10 * block.x <= ctx.position.x
                    /\ ctx.position.x < 10 * block.x + 10
                    /\ 10 * block.y <= ctx.position.y
                    /\ ctx.position.y < 10 * block.y + 10
                    /\ 10 * block.z <= ctx.position.z
                    /\ ctx.position.z < 10 * block.z + 10
            IN  /\ (reached' = "reached")
                     <=> /\ inside(ctx.target) \/ inside(ahead)
                         /\ ctx.position.y - 10 * ctx.target.y < 5
                /\ (ctx.position.y - 10 * ctx.target.y >= 5)
                     => reached' = "not reached"]_vars
    /\ [][ExecuteDescend =>
            LET ahead == BlockPos(2 * ctx.target.x - ctx.start.x, ctx.target.y,
                                  2 * ctx.target.z - ctx.start.z)
            IN  \A i \in 1..Len(sent') :
                   sent'[i].event = "LookAt"
                     => sent'[i].arg \in {center(ctx.target), center(ahead)}]_vars

\* descend_is_reached has answered yes for a bot in dest_ahead, and the
\* executor has aimed at the centre of that block.
C26_Witness ==
    /\ ctx.move = "descend"
    /\ reached = "reached"
    /\ BlockPosFrom(ctx.position) = dest_ahead(ctx.start, ctx.target)
    /\ executed
    /\ sent # <<>>
    /\ sent[1].arg = center(dest_ahead(ctx.start, ctx.target))

\* C27 as stated: set_client_information(info) stores info in the client's
\* ClientInformation component, also (without panicking) when the login
\* packet has not arrived yet, and it writes a ClientInformation packet
\* carrying info if and only if the client is logged in when it checks.
C27_Original ==
    /\ [][\A i \in 1..Len(calls) :
            StoreInformation(i) =>
               /\ calls'[i].pc # "panicked"
               /\ client_information'[calls[i].entity]
                     = calls[i].information]_vars
    /\ [][\A i \in 1..Len(calls) :
            CheckLoggedIn(i) =>
               (calls'[i].pc = "Ok") <=> ~logged_in(calls[i].entity)]_vars
    /\ [][\A i \in 1..Len(calls) :
            (WriteInformation(i) /\ calls'[i].pc = "Ok") =>
               game_packets'[calls[i].entity]
                  = Append(Get(game_packets, calls[i].entity, <<>>),
                           calls[i].information)]_vars

\* C28 as stated: once every set_client_information call has returned Ok,
\* the last ClientInformation packet written to the connection carries the
\* value of the ClientInformation component stored in the ECS.
C28_Original ==
    \A client \in clients :
       ( /\ calls # <<>>
         /\ \A i \in 1..Len(calls) : calls[i].pc = "Ok"
         /\ HasComponent(client.entity, "ClientInformation")
         /\ Get(game_packets, client.entity, <<>>) # <<>> )
       => Last(game_packets[client.entity])
             = client_information[client.entity]

\* C30: with an account that has no access token, the handshake never calls
\* the session server and never refreshes; a Hello (once its key material is
\* encrypted) leads straight to the ServerboundKeyPacket, whose write is
\* followed by set_encryption_key with that Hello's secret; and every Hello
\* so handled has its own KeyPacket and re-sets the encryption key.
C30_OfflineHelloStillEncrypts ==
    /\ [](~access_token => (authCalls = 0 /\ refreshCalls = 0))
    /\ [][(~access_token /\ hellos' # hellos) =>
             (pc' = "write_key" \/ result'.kind = "Panic")]_vars
    /\ [][(~access_token /\ pc = "write_key" /\ pc' = "read") =>
             /\ Len(written') = Len(written) + 1
             /\ Last(written').packet = "Key"
             /\ Last(written').val = hellos
             /\ encryption_key' = hellos]_vars
    /\ []((~access_token /\ pc = "read") =>
             /\ Cardinality({i \in 1..Len(written) :
                               written[i].packet = "Key"}) = hellos
             /\ hellos > 0 => encryption_key = hellos)

\* An offline account has handled two Hello packets: two KeyPackets are
\* written and the key is the second Hello's.
C30_Witness ==
    /\ ~access_token
    /\ hellos = 2
    /\ pc = "read"
    /\ encryption_key = 2
    /\ authCalls = 0
    /\ Cardinality({i \in 1..Len(written) : written[i].packet = "Key"}) = 2

\* C29 as stated: the login loop is left only by GameProfile, by
\* LoginDisconnect or by a failed read, write, authentication or refresh,
\* each of which makes handshake return Ok or Err; reading a Hello,
\* LoginCompression or CustomQuery never ends the handshake by itself, the
\* client is in the Login phase whenever it reads, and a CustomQuery is
\* answered by one CustomQueryAnswer with its transaction id.
C29_Original ==
    /\ [][(pc # "done" /\ pc' = "done") =>
             result'.kind \in {"Ok", "Disconnect", "Io", "ReadPacket",
                               "SessionServer", "Auth"}]_vars
    /\ [][(packetsRead' # packetsRead
             /\ p'.type \in {"Hello", "LoginCompression", "CustomQuery"}) =>
             pc' \in {"read", "authenticate", "write_key",
                      "write_custom_query_answer"}]_vars
    /\ [](pc = "read" => phase = "Login")
    /\ [][(pc = "write_custom_query_answer" /\ pc' = "read") =>
             written' = Append(written, Wire("CustomQueryAnswer", p.val))]_vars

\* ======================================================================
\* Properties of basic_move
\* ======================================================================

\* C31: basic_move returns at most 16 edges, no two with the same target;
\* every target differs from the node, is at most one block away in x and
\* in z and between three below and one above it; forward targets are level
\* on a cardinal offset, ascend targets one up, descend targets one to three
\* down, diagonal targets level on a corner offset.
C31_BasicMoveTargets ==
    [][BasicMove =>
        /\ Len(edges') <= 16
        /\ \A i \in 1..Len(edges'), j \in 1..Len(edges') :
             edges'[i].target = edges'[j].target => i = j
        /\ \A i \in 1..Len(edges') :
             LET dx == edges'[i].target.x - node.x
                 dy == edges'[i].target.y - node.y
                 dz == edges'[i].target.z - node.z
                 cardinal == (dx = 0 /\ dz \in {-1, 1})
                               \/ (dz = 0 /\ dx \in {-1, 1})
                 corner == dx \in {-1, 1} /\ dz \in {-1, 1}
             IN  /\ edges'[i].target # node
                 /\ dx \in -1..1
                 /\ dz \in -1..1
                 /\ dy \in {-3, -2, -1, 0, 1}
                 /\ edges'[i].execute = "execute_forward_move"
                      => (dy = 0 /\ cardinal)
                 /\ edges'[i].execute = "execute_ascend_move"
                      => (dy = 1 /\ cardinal)
                 /\ edges'[i].execute = "execute_descend_move"
                      => (dy \in {-3, -2, -1} /\ cardinal)
                 /\ edges'[i].execute = "execute_diagonal_move"
                      => (dy = 0 /\ corner)]_vars

\* basic_move has returned sixteen edges: four of each family.
C31_Witness ==
    /\ Len(edges) = 16
    /\ \A family \in {"execute_forward_move", "execute_ascend_move",
                      "execute_descend_move", "execute_diagonal_move"} :
          Cardinality({i \in 1..Len(edges) : edges[i].execute = family}) = 4

\* ======================================================================
\* Properties of ArgumentBuilder
\* ======================================================================

\* C32: a builder and the CommandNode it builds never have both a redirect
\* target and a child; forward, redirect and fork panic with "Cannot
\* forward a node with children" when the builder has children, and no
\* child is added to a builder whose redirect target is set.
C32_Original ==
    /\ [](/\ builder # NoBuilder =>
               ~(/\ builder.target # "None"
                 /\ DOMAIN builder.arguments.children # {})
          /\ built # NoNode =>
               ~(/\ built.redirect # "None"
                 /\ DOMAIN built.children # {}))
    /\ [][(/\ Redirect \/ Fork \/ Forward
           /\ DOMAIN builder.arguments.children # {})
            => panicked' = "Cannot forward a node with children"]_vars
    /\ [][(/\ Then \/ ThenBuilt
           /\ builder.target # "None")
            => /\ builder' # NoBuilder
               /\ builder'.arguments.children
                    = builder.arguments.children]_vars
====
